---- MODULE Spec2Model ----
(***************************************************************************)
(* A model of urbanjs-next: the lazy request chain NextOverPromise, its    *)
(* Deferred utility and the production rounds they drive.                  *)
(*                                                                         *)
(* Every `await` of the source is a point where other code may run, so     *)
(* every continuation of an async function is an action of its own.        *)
(* Receivers, chain handlers and teardowns are functions supplied by the   *)
(* application: their behaviour is the model's input and is drawn from     *)
(* small sets.                                                             *)
(***************************************************************************)
EXTENDS Integers, Sequences, FiniteSets, TLC

VARIABLES
  nodes,    \* the NextOverPromise instances created so far
  runs,     \* the executions of toPromise() started so far
  rounds,   \* the executions of produceNext() started so far
  last,     \* what the latest step was: the call, its result, what it logged
  deferred,       \* a Deferred used on its own
  deferredCalls,  \* the resolve() and reject() calls made on it, in order
  middlewareChain,  \* a MiddlewareChain: its middlewares and errorMiddlewares
  handles,        \* the executions of handle() started so far
  stack           \* the middleware functions being executed, innermost last

\* The state of the chain engine and the state of the utilities.
flow == <<nodes, runs, rounds>>
utils == <<deferred, deferredCalls, middlewareChain, handles, stack>>

vars == <<nodes, runs, rounds, last, deferred, deferredCalls, middlewareChain,
          handles, stack>>

-----------------------------------------------------------------------------
(* Bounds of the model *)

MaxNodes == 2     \* instances created in the life-cycle specification
MaxRuns == 2      \* toPromise() executions started
MaxStages == 3    \* chain() calls that build the flow of the chain specification
MaxSubStages == 2 \* chain() calls that build the flow of the sub-chain specification
MaxRounds == 3    \* produceNext() executions of one run
MaxCalls == 3     \* resolve() and reject() calls on the Deferred used on its own
MaxArity == 5     \* declared parameters of a function given to use()
MaxUse == 2       \* arguments of one use() call
MaxMiddlewares == 3  \* functions given to use() in all
MaxHandles == 2   \* handle() executions started
MaxNext == 4      \* next() calls of one handle() execution, its own included

-----------------------------------------------------------------------------
(* Values *)

\* A JavaScript value: a number, an Error carrying a number as its message,
\* a settled Promise of a number, a chain node (by index), a Promise of a
\* chain node, or a receiver function (by index).
Plain(x) == [k |-> "plain", v |-> x]
ErrorOf(x) == [k |-> "error", v |-> x]
PromiseOk(x) == [k |-> "promise_ok", v |-> x]
PromiseErr(x) == [k |-> "promise_err", v |-> x]
NodeRef(i) == [k |-> "node", v |-> i]
PromiseNode(i) == [k |-> "promise_node", v |-> i]
ReceiverRef(r) == [k |-> "receiver", v |-> r]
Null == [k |-> "null", v |-> 0]

\* The state of a promise.
Pending == [st |-> "pending", val |-> Null]
Fulfilled(x) == [st |-> "ok", val |-> x]
Rejected(x) == [st |-> "err", val |-> x]
IsSettled(p) == p.st # "pending"

\* What a promise resolved with x (or an `await x`) settles to: a thenable is
\* adopted, anything else is the fulfilment value itself.
PromiseResolve(x) ==
  CASE x.k = "promise_ok" -> Fulfilled(Plain(x.v))
    [] x.k = "promise_err" -> Rejected(ErrorOf(x.v))
    [] x.k = "promise_node" -> Fulfilled(NodeRef(x.v))
    [] OTHER -> Fulfilled(x)

\* The receivers the application may register.
Receivers == {1, 2}

\* The values a receiver may pass to observer.next() and the errors it may
\* pass to observer.error().
EmitValues == {Plain(1), PromiseOk(2)}
EmitErrors == {ErrorOf(7)}

-----------------------------------------------------------------------------
(* Deferred *)

\* new Deferred(): nothing settled, isCompleted = false.
NewDeferred == [isCompleted |-> FALSE, promise |-> Pending]

\* DeferredResolve that resolves again.
DeferredResolveAgain(d, value) == [isCompleted |-> TRUE, promise |-> PromiseResolve(value)]

\* deferred.resolve(value): wrap() ignores every call after the first.
DeferredResolve(d, value) ==
  IF d.isCompleted THEN d
  ELSE [isCompleted |-> TRUE, promise |-> PromiseResolve(value)]

\* DeferredReject with an isCompleted of its own, not shared with resolve.
DeferredRejectOwnFlag(d, reason) ==
  IF d.isCompleted /\ d.promise.st = "err" THEN d
  ELSE [isCompleted |-> TRUE, promise |-> Rejected(reason)]

\* deferred.reject(reason): shares isCompleted with resolve; the reason is
\* not adopted, it is the rejection itself.
DeferredReject(d, reason) ==
  IF d.isCompleted THEN d
  ELSE [isCompleted |-> TRUE, promise |-> Rejected(reason)]

\* The number of warnings a resolve()/reject() call on d logs.
DeferredLogs(d) == IF d.isCompleted THEN 1 ELSE 0

-----------------------------------------------------------------------------
(* Chain handlers *)

\* The success and failure handlers the application may pass to chain(),
\* by what they do with the number they are given.
NoHandler == [h |-> "none", n |-> 0]        \* the argument is omitted
Inc == [h |-> "inc", n |-> 0]               \* (value) => value + 1
Throw == [h |-> "throw", n |-> 0]           \* (val) => { throw new Error(`${val}`) }
Recover == [h |-> "recover", n |-> 0]       \* (e) => parseFloat(e.message) + 1
AsyncInc == [h |-> "async_inc", n |-> 0]    \* async (value) => value + 1
AsyncFail == [h |-> "async_fail", n |-> 0]  \* (value) => Promise.reject(new Error(`${value}`))
Sub(n) == [h |-> "sub", n |-> n]            \* (value) => <node n>
AsyncSub(n) == [h |-> "async_sub", n |-> n] \* async (value) => <node n>

\* Calling handler h with x: what it returns, or what it throws.
Call(h, x) ==
  CASE h.h = "inc" -> [val |-> Plain(x.v + 1), thrown |-> FALSE]
    [] h.h = "recover" -> [val |-> Plain(x.v + 1), thrown |-> FALSE]
    [] h.h = "throw" -> [val |-> ErrorOf(x.v), thrown |-> TRUE]
    [] h.h = "async_inc" -> [val |-> PromiseOk(x.v + 1), thrown |-> FALSE]
    [] h.h = "async_fail" -> [val |-> PromiseErr(x.v), thrown |-> FALSE]
    [] h.h = "sub" -> [val |-> NodeRef(h.n), thrown |-> FALSE]
    [] h.h = "async_sub" -> [val |-> PromiseNode(h.n), thrown |-> FALSE]

-----------------------------------------------------------------------------
(* NextOverPromise: the instance and its synchronous methods *)

NodeIds == 1..Len(nodes)
RunIds == 1..Len(runs)
RoundIds == 1..Len(rounds)

\* new NextOverPromise(): no operator, no receiver, not shared.
\* An operator is the list of the (onSuccess, onFailure) pairs it applies, in
\* order; the empty list is `operator === undefined`. sharedResultPromise is
\* the run whose promise it is, 0 when undefined.
NewNode ==
  [operator |-> <<>>,
   hasReceiver |-> FALSE,
   nextReceiverDeferred |-> NewDeferred,
   sharedResultPromise |-> 0]

\* isNext(value): value instanceof this.constructor.
IsNext(value) == value.k = "node"

\* Lift that leaves the clone the receiver slot of the original.
LiftWithReceiver(this, operator) ==
  [operator |-> IF operator # <<>> THEN operator ELSE this.operator,
   hasReceiver |-> this.hasReceiver,
   nextReceiverDeferred |-> this.nextReceiverDeferred,
   sharedResultPromise |-> 0]

\* lift(operator): a clone with a new Deferred, hasReceiver = false and
\* `operator || this.operator`.
Lift(this, operator) ==
  [operator |-> IF operator # <<>> THEN operator ELSE this.operator,
   hasReceiver |-> FALSE,
   nextReceiverDeferred |-> NewDeferred,
   sharedResultPromise |-> 0]

\* The operator chain() builds: this.operator first (if there is one), then
\* promise.then(onSuccess, onFailure).
ChainOperator(this, onSuccess, onFailure) ==
  Append(this.operator, [onSuccess |-> onSuccess, onFailure |-> onFailure])

\* The instances after ns[n].chain(onSuccess, onFailure).
Chained(ns, n, onSuccess, onFailure) ==
  Append(ns, Lift(ns[n], ChainOperator(ns[n], onSuccess, onFailure)))

\* The first statements of toPromise(): a new closedDeferred, then the wait
\* for the receiver. (consumer: the call came from the application, not from
\* share(); born: the number of instances there were at the call.)
NewRun(n, byConsumer) ==
  [node |-> n,
   consumer |-> byConsumer,
   born |-> Len(nodes),
   pc |-> "awaitReceiver",
   closedDeferred |-> NewDeferred,
   root |-> 0,
   result |-> Pending]

\* The latest step: a call of the public interface with what it returned
\* (an instance or a run; for produce() the receiver it was given), what it
\* threw and how often it logged; any other step is Idle.
Step(op, n, ret, err, logs) ==
  [node |-> n, op |-> op, ret |-> ret, err |-> err, logs |-> logs]
Idle == Step("step", 0, 0, "none", 0)

\* new NextOverPromise()
Construct ==
  /\ nodes' = Append(nodes, NewNode)
  /\ last' = Step("new", 0, Len(nodes) + 1, "none", 0)
  /\ UNCHANGED <<utils, runs, rounds>>

\* Chain installing the new operator on the receiver as well as on the clone.
ChainInPlace(n, onSuccess, onFailure) ==
  /\ nodes' = Append([nodes EXCEPT ![n].operator = ChainOperator(nodes[n], onSuccess, onFailure)],
                     Lift(nodes[n], ChainOperator(nodes[n], onSuccess, onFailure)))
  /\ last' = Step("chain", n, Len(nodes) + 1, "none", 0)
  /\ UNCHANGED <<utils, runs, rounds>>

\* Chain starting an execution of the clone at once, as share() does.
ChainEager(n, onSuccess, onFailure) ==
  /\ nodes' = Chained(nodes, n, onSuccess, onFailure)
  /\ runs' = Append(runs, NewRun(Len(nodes) + 1, FALSE))
  /\ last' = Step("chain", n, Len(nodes) + 1, "none", 0)
  /\ UNCHANGED <<utils, rounds>>

\* nodes[n].chain(onSuccess, onFailure)
Chain(n, onSuccess, onFailure) ==
  /\ nodes' = Chained(nodes, n, onSuccess, onFailure)
  /\ last' = Step("chain", n, Len(nodes) + 1, "none", 0)
  /\ UNCHANGED <<utils, runs, rounds>>

\* nodes[n].share(): a shared node returns itself; otherwise the clone's
\* sharedResultPromise is the promise of a toPromise() call made at once.
Share(n) ==
  IF nodes[n].sharedResultPromise # 0
  THEN /\ last' = Step("share", n, n, "none", 0)
       /\ UNCHANGED <<utils, nodes, runs, rounds>>
  ELSE /\ nodes' = Append(nodes,
            [Lift(nodes[n], <<>>) EXCEPT !.sharedResultPromise = Len(runs) + 1])
       /\ runs' = Append(runs, NewRun(Len(nodes) + 1, FALSE))
       /\ last' = Step("share", n, Len(nodes) + 1, "none", 0)
       /\ UNCHANGED <<utils, rounds>>

\* The instances after a produce(receiver) call that ns[n] accepts.
Produced(ns, n, receiver) ==
  [ns EXCEPT
     ![n].hasReceiver = TRUE,
     ![n].nextReceiverDeferred =
        DeferredResolve(ns[n].nextReceiverDeferred, ReceiverRef(receiver))]

\* Produce without the hasReceiver check: a later receiver replaces the first.
ProduceAgain(n, receiver) ==
  /\ nodes' = [nodes EXCEPT
       ![n].hasReceiver = TRUE,
       ![n].nextReceiverDeferred = DeferredResolve(NewDeferred, ReceiverRef(receiver))]
  /\ last' = Step("produce", n, receiver, "none", 0)
  /\ UNCHANGED <<utils, runs, rounds>>

\* nodes[n].produce(receiver)
Produce(n, receiver) ==
  IF nodes[n].hasReceiver
  THEN /\ last' = Step("produce", n, receiver, "invalid_state", 1)
       /\ UNCHANGED <<utils, nodes, runs, rounds>>
  ELSE /\ nodes' = Produced(nodes, n, receiver)
       /\ last' = Step("produce", n, receiver, "none", 0)
       /\ UNCHANGED <<utils, runs, rounds>>

\* ToPromise without the sharedResultPromise check: every call starts a run.
ToPromiseUnshared(n) ==
  /\ runs' = Append(runs, NewRun(n, TRUE))
  /\ last' = Step("toPromise", n, Len(runs) + 1, "none", 0)
  /\ UNCHANGED <<utils, nodes, rounds>>

\* nodes[n].toPromise(), up to its first await: a shared node hands out its
\* sharedResultPromise, any other node starts a run.
ToPromise(n) ==
  IF nodes[n].sharedResultPromise # 0
  THEN /\ last' = Step("toPromise", n, nodes[n].sharedResultPromise, "none", 0)
       /\ UNCHANGED <<utils, nodes, runs, rounds>>
  ELSE /\ runs' = Append(runs, NewRun(n, TRUE))
       /\ last' = Step("toPromise", n, Len(runs) + 1, "none", 0)
       /\ UNCHANGED <<utils, nodes, rounds>>

-----------------------------------------------------------------------------
(* produceNext and the operator: one production round *)

\* What a receiver does when it is invoked: return nothing, return a
\* teardown that does nothing else, return the teardown of the README
\* (() => observer.complete()), or throw.
ReceiverReturns == {"throw", "void", "fn", "complete"}

\* The handler of the stage a round is at has not been called: wrap() is
\* not waiting at `await valueProducer()`.
NotCalled == [dispatch |-> FALSE, out |-> Pending]

\* ProduceNext with a catch that rejects resultDeferred with what was thrown.
ProduceNextRejecting(run, nextReceiver, request, hasCompletionHandler, parent, returned) ==
  [value |-> Pending,
   pc |-> "await",
   receiver |-> nextReceiver,
   run |-> run,
   request |-> request,
   hasCompletionHandler |-> hasCompletionHandler,
   parent |-> parent,
   parentStage |-> IF parent = 0 THEN 0 ELSE rounds[parent].stage,
   stage |-> 0,
   first |-> [sig |-> "none", arg |-> Null],
   resultDeferred |-> IF returned = "throw"
                      THEN DeferredReject(NewDeferred, ErrorOf(0))
                      ELSE NewDeferred,
   teardown |-> IF returned = "throw" THEN "void" ELSE returned,
   threw |-> returned = "throw",
   teardownCalls |-> 0,
   completeCalled |-> FALSE,
   waiting |-> 0,
   valueProducer |-> NotCalled]

\* produceNext(nextReceiver, request, completionHandler) up to its await: the
\* new resultDeferred and observer, and the receiver invoked inside the try.
\* `returned` is what the invocation did; a throw leaves teardown undefined.
\* (parent, parentStage: the round and the stage whose handler asked for this
\* round, 0 for the round of toPromise(); first: the first next() or error()
\* call made on the observer.)
ProduceNext(run, nextReceiver, request, hasCompletionHandler, parent, returned) ==
  [value |-> Pending,
   pc |-> "await",
   receiver |-> nextReceiver,
   run |-> run,
   request |-> request,
   hasCompletionHandler |-> hasCompletionHandler,
   parent |-> parent,
   parentStage |-> IF parent = 0 THEN 0 ELSE rounds[parent].stage,
   stage |-> 0,
   first |-> [sig |-> "none", arg |-> Null],
   resultDeferred |-> NewDeferred,
   teardown |-> IF returned = "throw" THEN "void" ELSE returned,
   threw |-> returned = "throw",
   teardownCalls |-> 0,
   completeCalled |-> FALSE,
   waiting |-> 0,
   valueProducer |-> NotCalled]

\* The log calls of that invocation: the catch logs once.
ProduceNextLogs(returned) == IF returned = "throw" THEN 1 ELSE 0

\* The log calls of observer.complete() of round k: the Deferred warns when
\* the completion handler resolves a closedDeferred that is resolved already.
CompleteLogs(k) ==
  IF rounds[k].hasCompletionHandler
  THEN DeferredLogs(runs[rounds[k].run].closedDeferred)
  ELSE 0

\* Complete with one closedDeferred for all the runs of the instance.
CompleteAll(k) ==
  IF rounds[k].hasCompletionHandler
  THEN [r \in RunIds |->
          IF runs[r].node = runs[rounds[k].run].node
          THEN [runs[r] EXCEPT !.closedDeferred = DeferredResolve(@, Null)]
          ELSE runs[r]]
  ELSE runs

\* observer.complete() of round k: the completion handler, when one was
\* given, resolves the closedDeferred of the run.
Complete(k) ==
  IF rounds[k].hasCompletionHandler
  THEN [runs EXCEPT ![rounds[k].run].closedDeferred =
          DeferredResolve(runs[rounds[k].run].closedDeferred, Null)]
  ELSE runs

\* Then with a failure handler that does not recover: its result stays a failure.
ThenNoRecover(stage, input) ==
  LET handler == IF input.st = "ok" THEN stage.onSuccess ELSE stage.onFailure
      called == Call(handler, input.val)
      resultValue == PromiseResolve(called.val)
  IN  CASE handler.h = "none" -> [dispatch |-> FALSE, out |-> input]
        [] called.thrown -> [dispatch |-> FALSE, out |-> Rejected(called.val)]
        [] resultValue.st = "err" -> [dispatch |-> FALSE, out |-> resultValue]
        [] IsNext(resultValue.val) -> [dispatch |-> TRUE, out |-> resultValue]
        [] input.st = "err" -> [dispatch |-> FALSE, out |-> Rejected(resultValue.val)]
        [] OTHER -> [dispatch |-> FALSE, out |-> resultValue]

\* One promise.then(onSuccess, onFailure) of the operator, on a settled input:
\* the handler of the input's side runs inside wrap(), which awaits what it
\* returns; a missing handler passes the input on. The answer is the settled
\* output, or the request that wrap() hands to produceNext.
Then(stage, input) ==
  LET handler == IF input.st = "ok" THEN stage.onSuccess ELSE stage.onFailure
      called == Call(handler, input.val)
      resultValue == PromiseResolve(called.val)
  IN  CASE handler.h = "none" -> [dispatch |-> FALSE, out |-> input]
        [] called.thrown -> [dispatch |-> FALSE, out |-> Rejected(called.val)]
        [] resultValue.st = "err" -> [dispatch |-> FALSE, out |-> resultValue]
        [] IsNext(resultValue.val) -> [dispatch |-> TRUE, out |-> resultValue]
        [] OTHER -> [dispatch |-> FALSE, out |-> resultValue]

\* The operator of the request of round k, and the promise its next stage
\* waits for.
OperatorOf(k) == nodes[rounds[k].request].operator
StageInput(k) ==
  IF rounds[k].stage = 1 THEN rounds[k].resultDeferred.promise ELSE rounds[k].value

\* The promise of produceNext: pending until the function is past its await,
\* then the promise it returned: the operator's last promise, or
\* resultDeferred.promise when the request has no operator.
Result(k) ==
  CASE rounds[k].pc = "await" -> Pending
    [] OperatorOf(k) = <<>> -> rounds[k].resultDeferred.promise
    [] rounds[k].stage > Len(OperatorOf(k)) -> rounds[k].value
    [] OTHER -> Pending

\* RunStart that reads the receiver without waiting for produce().
RunStartUnawaited(r, returned) ==
  LET n == runs[r].node
      p == nodes[n].nextReceiverDeferred.promise
  IN  /\ runs[r].pc = "awaitReceiver"
      /\ rounds' = Append(rounds, ProduceNext(r, p.val.v, n, TRUE, 0, returned))
      /\ runs' = [runs EXCEPT ![r].pc = "producing", ![r].root = Len(rounds) + 1]
      /\ last' = Step("step", 0, 0, "none", ProduceNextLogs(returned))
      /\ UNCHANGED <<utils, nodes>>

\* toPromise() past `await this.nextReceiverDeferred.promise`: the root round.
RunStart(r, returned) ==
  LET n == runs[r].node
      p == nodes[n].nextReceiverDeferred.promise
  IN  /\ runs[r].pc = "awaitReceiver"
      /\ IsSettled(p)
      /\ rounds' = Append(rounds, ProduceNext(r, p.val.v, n, TRUE, 0, returned))
      /\ runs' = [runs EXCEPT ![r].pc = "producing", ![r].root = Len(rounds) + 1]
      /\ last' = Step("step", 0, 0, "none", ProduceNextLogs(returned))
      /\ UNCHANGED <<utils, nodes>>

\* RoundReturn without the `finally`: the teardown is not run.
RoundReturnNoFinally(k) ==
  /\ rounds[k].pc = "await"
  /\ rounds' = [rounds EXCEPT
       ![k].pc = "returned",
       ![k].stage = IF OperatorOf(k) = <<>> THEN 0 ELSE 1]
  /\ last' = Idle
  /\ UNCHANGED <<utils, nodes, runs>>

\* RoundReturn whose `finally` is run a second time.
RoundReturnTwice(k) ==
  LET called == rounds[k].teardown # "void"
      completes == rounds[k].teardown = "complete"
  IN  /\ rounds[k].pc \in {"returned", "await"}
      /\ rounds[k].teardownCalls < 2
      /\ rounds' = [rounds EXCEPT
           ![k].pc = "returned",
           ![k].stage = IF rounds[k].pc = "returned" THEN @
                        ELSE IF OperatorOf(k) = <<>> THEN 0 ELSE 1,
           ![k].teardownCalls = @ + (IF called THEN 1 ELSE 0),
           ![k].completeCalled = @ \/ completes]
      /\ runs' = IF completes THEN Complete(k) ELSE runs
      /\ last' = Step("step", 0, 0, "none", IF completes THEN CompleteLogs(k) ELSE 0)
      /\ UNCHANGED <<utils, nodes>>

\* produceNext past `await (request && request.operator)`: the operator is
\* applied to resultDeferred.promise, and the `finally` runs the teardown
\* as the function returns the promise. A teardown that calls
\* observer.complete() logs what that call logs.
RoundReturn(k) ==
  LET called == rounds[k].teardown # "void"
      completes == rounds[k].teardown = "complete"
  IN  /\ rounds[k].pc = "await"
      /\ rounds' = [rounds EXCEPT
           ![k].pc = "returned",
           ![k].stage = IF OperatorOf(k) = <<>> THEN 0 ELSE 1,
           ![k].teardownCalls = @ + (IF called THEN 1 ELSE 0),
           ![k].completeCalled = @ \/ completes]
      /\ runs' = IF completes THEN Complete(k) ELSE runs
      /\ last' = Step("step", 0, 0, "none", IF completes THEN CompleteLogs(k) ELSE 0)
      /\ UNCHANGED <<utils, nodes>>

\* The handler the stage of round k calls for its input: onSuccess for a
\* value, onFailure for a failure; NoHandler when that argument was omitted.
StageHandler(k) ==
  IF StageInput(k).st = "ok"
  THEN OperatorOf(k)[rounds[k].stage].onSuccess
  ELSE OperatorOf(k)[rounds[k].stage].onFailure

\* StageCall that does not wait for the promise the stage was chained on
\* and calls the fulfilment handler.
StageCallEarly(k) ==
  /\ rounds[k].pc = "returned"
  /\ rounds[k].stage \in 1..Len(OperatorOf(k))
  /\ rounds[k].waiting = 0
  /\ rounds[k].valueProducer = NotCalled
  /\ OperatorOf(k)[rounds[k].stage].onSuccess # NoHandler
  /\ rounds' = [rounds EXCEPT ![k].valueProducer =
       Then(OperatorOf(k)[rounds[k].stage],
            IF IsSettled(StageInput(k)) THEN StageInput(k) ELSE Fulfilled(Plain(1)))]
  /\ last' = Idle
  /\ UNCHANGED <<utils, nodes, runs>>

\* The job of promise.then(...) for a stage whose input has settled and
\* which has a handler for it: wrap() calls the handler and stops at
\* `await valueProducer()`. What the handler gave is settled, or handed to
\* produceNext, by a later job.
StageCall(k) ==
  /\ rounds[k].pc = "returned"
  /\ rounds[k].stage \in 1..Len(OperatorOf(k))
  /\ rounds[k].waiting = 0
  /\ IsSettled(StageInput(k))
  /\ rounds[k].valueProducer = NotCalled
  /\ StageHandler(k) # NoHandler
  /\ rounds' = [rounds EXCEPT ![k].valueProducer =
       Then(OperatorOf(k)[rounds[k].stage], StageInput(k))]
  /\ last' = Idle
  /\ UNCHANGED <<utils, nodes, runs>>

\* What settles the promise of the stage round k is at: the input itself
\* when the stage has no handler for it, else what the handler gave.
StageOutcome(k) ==
  IF IsSettled(StageInput(k)) /\ StageHandler(k) = NoHandler
  THEN Then(OperatorOf(k)[rounds[k].stage], StageInput(k))
  ELSE rounds[k].valueProducer

\* The promise of a stage settles: with its input when the stage has no
\* handler for it, else with the value or the failure the handler gave,
\* once wrap() is past `await valueProducer()`.
StageSettle(k) ==
  /\ rounds[k].pc = "returned"
  /\ rounds[k].stage \in 1..Len(OperatorOf(k))
  /\ rounds[k].waiting = 0
  /\ IsSettled(StageOutcome(k).out)
  /\ ~StageOutcome(k).dispatch
  /\ rounds' = [rounds EXCEPT
       ![k].value = StageOutcome(k).out,
       ![k].stage = @ + 1,
       ![k].valueProducer = NotCalled]
  /\ last' = Idle
  /\ UNCHANGED <<utils, nodes, runs>>

\* StageDispatch handing the request to the receiver registered on the
\* request itself.
StageDispatchOwnReceiver(k, returned) ==
  /\ rounds[k].pc = "returned"
  /\ rounds[k].stage \in 1..Len(OperatorOf(k))
  /\ rounds[k].waiting = 0
  /\ rounds[k].valueProducer.dispatch
  /\ LET request == rounds[k].valueProducer.out.val.v
     IN  /\ IsSettled(nodes[request].nextReceiverDeferred.promise)
         /\ rounds' = Append([rounds EXCEPT ![k].waiting = Len(rounds) + 1,
                                            ![k].valueProducer = NotCalled],
              ProduceNext(rounds[k].run, nodes[request].nextReceiverDeferred.promise.val.v,
                          request, FALSE, k, returned))
  /\ last' = Step("step", 0, 0, "none", ProduceNextLogs(returned))
  /\ UNCHANGED <<utils, nodes, runs>>

\* StageDispatch that hands the completion handler of the run to the
\* nested produceNext.
StageDispatchCompleting(k, returned) ==
  /\ rounds[k].pc = "returned"
  /\ rounds[k].stage \in 1..Len(OperatorOf(k))
  /\ rounds[k].waiting = 0
  /\ rounds[k].valueProducer.dispatch
  /\ rounds' = Append([rounds EXCEPT ![k].waiting = Len(rounds) + 1,
                                     ![k].valueProducer = NotCalled],
       ProduceNext(rounds[k].run, rounds[k].receiver, rounds[k].valueProducer.out.val.v,
                   TRUE, k, returned))
  /\ last' = Step("step", 0, 0, "none", ProduceNextLogs(returned))
  /\ UNCHANGED <<utils, nodes, runs>>

\* wrap() past `await valueProducer()` with a next request: it calls
\* produceNext with the receiver of this round, that request and no
\* completion handler, which invokes the receiver.
StageDispatch(k, returned) ==
  /\ rounds[k].pc = "returned"
  /\ rounds[k].stage \in 1..Len(OperatorOf(k))
  /\ rounds[k].waiting = 0
  /\ rounds[k].valueProducer.dispatch
  /\ rounds' = Append([rounds EXCEPT ![k].waiting = Len(rounds) + 1,
                                     ![k].valueProducer = NotCalled],
       ProduceNext(rounds[k].run, rounds[k].receiver, rounds[k].valueProducer.out.val.v,
                   FALSE, k, returned))
  /\ last' = Step("step", 0, 0, "none", ProduceNextLogs(returned))
  /\ UNCHANGED <<utils, nodes, runs>>

\* The promise wrap() returned settles as the nested round's promise does.
StageAdopt(k) ==
  /\ rounds[k].waiting # 0
  /\ IsSettled(Result(rounds[k].waiting))
  /\ rounds' = [rounds EXCEPT
       ![k].value = Result(rounds[k].waiting),
       ![k].waiting = 0,
       ![k].stage = @ + 1]
  /\ last' = Idle
  /\ UNCHANGED <<utils, nodes, runs>>

\* RunResult that goes on to `await closedDeferred.promise` with a rejection
\* as it does with a value.
RunResultAwaitingClosed(r) ==
  LET p == Result(runs[r].root)
  IN  /\ runs[r].pc = "producing"
      /\ IsSettled(p)
      /\ runs' = [runs EXCEPT ![r].pc = "awaitClosed"]
      /\ last' = Idle
      /\ UNCHANGED <<utils, nodes, rounds>>

\* toPromise() past `await this.produceNext(...)`: a rejection leaves the
\* function, a value goes on to wait for closedDeferred.
RunResult(r) ==
  LET p == Result(runs[r].root)
  IN  /\ runs[r].pc = "producing"
      /\ IsSettled(p)
      /\ runs' = [runs EXCEPT
           ![r].pc = IF p.st = "err" THEN "rejected" ELSE "awaitClosed",
           ![r].result = IF p.st = "err" THEN p ELSE Pending]
      /\ last' = Idle
      /\ UNCHANGED <<utils, nodes, rounds>>

\* RunClosed without `await closedDeferred.promise`.
RunClosedNoWait(r) ==
  /\ runs[r].pc = "awaitClosed"
  /\ runs' = [runs EXCEPT
       ![r].pc = "fulfilled",
       ![r].result = PromiseResolve(Result(runs[r].root).val)]
  /\ last' = Idle
  /\ UNCHANGED <<utils, nodes, rounds>>

\* RunClosed with the `return result` missing.
RunClosedNoResult(r) ==
  /\ runs[r].pc = "awaitClosed"
  /\ IsSettled(runs[r].closedDeferred.promise)
  /\ runs' = [runs EXCEPT ![r].pc = "fulfilled", ![r].result = Fulfilled(Null)]
  /\ last' = Idle
  /\ UNCHANGED <<utils, nodes, rounds>>

\* toPromise() past `await closedDeferred.promise`: return result.
RunClosed(r) ==
  /\ runs[r].pc = "awaitClosed"
  /\ IsSettled(runs[r].closedDeferred.promise)
  /\ runs' = [runs EXCEPT
       ![r].pc = "fulfilled",
       ![r].result = PromiseResolve(Result(runs[r].root).val)]
  /\ last' = Idle
  /\ UNCHANGED <<utils, nodes, rounds>>

-----------------------------------------------------------------------------
(* The observer of a round, as the receiver may use it at any time *)

\* The first call made on the observer of round k, after call sig(arg).
First(k, sig, arg) ==
  IF rounds[k].first.sig = "none" THEN [sig |-> sig, arg |-> arg] ELSE rounds[k].first

\* observer.next(value); the Deferred warns when it is completed already.
ObserverNext(k, value) ==
  /\ rounds' = [rounds EXCEPT
       ![k].resultDeferred = DeferredResolve(rounds[k].resultDeferred, value),
       ![k].first = First(k, "next", value)]
  /\ last' = Step("step", 0, 0, "none", DeferredLogs(rounds[k].resultDeferred))
  /\ UNCHANGED <<utils, nodes, runs>>

\* observer.error(reason); the Deferred warns when it is completed already.
ObserverError(k, reason) ==
  /\ rounds' = [rounds EXCEPT
       ![k].resultDeferred = DeferredReject(rounds[k].resultDeferred, reason),
       ![k].first = First(k, "error", reason)]
  /\ last' = Step("step", 0, 0, "none", DeferredLogs(rounds[k].resultDeferred))
  /\ UNCHANGED <<utils, nodes, runs>>

\* observer.complete()
ObserverComplete(k) ==
  /\ rounds' = [rounds EXCEPT ![k].completeCalled = TRUE]
  /\ runs' = Complete(k)
  /\ last' = Step("step", 0, 0, "none", CompleteLogs(k))
  /\ UNCHANGED <<utils, nodes>>

\* observer.next(arg) or observer.error(arg) of round k, as the receiver
\* that calls it sees it: nothing is thrown, and the Deferred logs a
\* warning for a call that is not the first.
Signal(k, sig, arg) ==
  /\ rounds' = [rounds EXCEPT
       ![k].resultDeferred = IF sig = "next"
                             THEN DeferredResolve(rounds[k].resultDeferred, arg)
                             ELSE DeferredReject(rounds[k].resultDeferred, arg),
       ![k].first = First(k, sig, arg)]
  /\ last' = Step(sig, k, 0, "none", DeferredLogs(rounds[k].resultDeferred))
  /\ UNCHANGED <<utils, nodes, runs>>

\* The steps of the runs in progress and the signals of their receivers,
\* for receivers that behave as `returns` when invoked and emit `values` and
\* `reasons`.
Progress(returns, values, reasons) ==
  \/ \E r \in RunIds, returned \in returns : RunStart(r, returned)
  \/ \E k \in RoundIds : RoundReturn(k)
  \/ \E r \in RunIds : RunResult(r)
  \/ \E r \in RunIds : RunClosed(r)
  \/ \E k \in RoundIds, value \in values : ObserverNext(k, value)
  \/ \E k \in RoundIds, reason \in reasons : ObserverError(k, reason)
  \/ \E k \in RoundIds : ObserverComplete(k)

-----------------------------------------------------------------------------
(* The utilities used on their own *)

\* No chain node exists.
NoFlow ==
  /\ nodes = <<>>
  /\ runs = <<>>
  /\ rounds = <<>>

\* new MiddlewareChain(): nothing registered.
NewMiddlewareChain == [middlewares |-> <<>>, errorMiddlewares |-> <<>>]

\* A Deferred and a MiddlewareChain exist and were not used.
NoUtils ==
  /\ deferred = NewDeferred
  /\ deferredCalls = <<>>
  /\ middlewareChain = NewMiddlewareChain
  /\ handles = <<>>
  /\ stack = <<>>

\* One call on the Deferred: what was called, with what, and the warnings
\* it logged.
DeferredCall(op, arg, logs) == [op |-> op, logs |-> logs, arg |-> arg]

\* deferred.resolve(value) called by the application.
Resolve(value) ==
  /\ deferred' = DeferredResolve(deferred, value)
  /\ deferredCalls' =
       Append(deferredCalls, DeferredCall("resolve", value, DeferredLogs(deferred)))
  /\ last' = Step("resolve", 0, 0, "none", DeferredLogs(deferred))
  /\ UNCHANGED <<flow, middlewareChain, handles, stack>>

\* deferred.reject(reason) called by the application.
Reject(reason) ==
  /\ deferred' = DeferredReject(deferred, reason)
  /\ deferredCalls' =
       Append(deferredCalls, DeferredCall("reject", reason, DeferredLogs(deferred)))
  /\ last' = Step("reject", 0, 0, "none", DeferredLogs(deferred))
  /\ UNCHANGED <<flow, middlewareChain, handles, stack>>

\* The values and the reasons the application settles a Deferred with.
ResolveValues == {Plain(1), Plain(2), PromiseOk(3), PromiseErr(7)}
RejectReasons == {ErrorOf(7), ErrorOf(8)}

InitDeferred ==
  /\ NoFlow
  /\ NoUtils
  /\ last = Idle

NextDeferred ==
  \/ \E value \in ResolveValues : Len(deferredCalls) < MaxCalls /\ Resolve(value)
  \/ \E reason \in RejectReasons : Len(deferredCalls) < MaxCalls /\ Reject(reason)

SpecDeferred == InitDeferred /\ [][NextDeferred]_vars

-----------------------------------------------------------------------------
(* MiddlewareChain *)

\* A function given to use(): the application's name for it and the number
\* of parameters it declares (its `length`).
Function(name, length) == [name |-> name, length |-> length]

\* isMiddleware that takes a function of three parameters only.
IsMiddlewareOfThree(value) == value.length = 3

\* isMiddleware(value) and isErrorMiddleware(value), for a function.
IsMiddleware(value) == value.length < 4
IsErrorMiddleware(value) == value.length = 4

RECURSIVE ForEachUse(_, _)
\* The forEach of use(...middlewares) on the lists c: every function goes
\* to the list of its kind until one is of neither kind, which is logged
\* and thrown for; what was pushed before it stays.
ForEachUse(c, fns) ==
  IF fns = <<>> THEN [err |-> "none", logs |-> 0, chain |-> c]
  ELSE IF IsMiddleware(Head(fns))
    THEN ForEachUse([c EXCEPT !.middlewares = Append(@, Head(fns))], Tail(fns))
  ELSE IF IsErrorMiddleware(Head(fns))
    THEN ForEachUse([c EXCEPT !.errorMiddlewares = Append(@, Head(fns))], Tail(fns))
  ELSE [err |-> "invalid_middleware", logs |-> 1, chain |-> c]

\* The number of functions registered.
Registered == Len(middlewareChain.middlewares) + Len(middlewareChain.errorMiddlewares)

\* use(...fns), called by the application or by a function being executed;
\* fns are functions not given to use() before, with the given lengths.
Use(lengths) ==
  LET fns == [i \in 1..Len(lengths) |-> Function(Registered + i, lengths[i])]
      done == ForEachUse(middlewareChain, fns)
  IN /\ middlewareChain' = done.chain
     /\ last' = Step("use", 0, IF done.err = "none" THEN 1 ELSE 0, done.err, done.logs)
     /\ UNCHANGED <<flow, deferred, deferredCalls, handles, stack>>

\* close, the function handle() puts at the end of both copies.
Close == Function(0, 0)

\* What lies beyond the end of a copy: nothing that can be called.
NotAFunction == Function(-1, 0)

\* One call of next(err) in an execution: the function it called and the
\* error it gave to it (none to a middleware).
Invocation(err, func, error) == [err |-> err, func |-> func, error |-> error]

\* The variables of an execution of handle() on the lists c, before its
\* call of next().
NewHandle(c) ==
  [pc |-> "handling",
   middlewares |-> Append(c.middlewares, Close),
   errorMiddlewares |-> Append(c.errorMiddlewares, Close),
   error |-> Null,
   teardowns |-> <<>>,
   index |-> 0,
   errorIndex |-> 0,
   invoked |-> <<>>,
   pushed |-> <<>>,
   executed |-> <<>>]

HandleIds == 1..Len(handles)

\* CurrentError that forgets the error of an earlier call.
CurrentErrorOfCall(run, err) == err

\* `error = err || error` of next(err).
CurrentError(run, err) == IF err # Null THEN err ELSE run.error

\* HandlersOf that reads the lists of the chain as they are now.
HandlersOfChain(run, error) ==
  IF error # Null
  THEN Append(middlewareChain.errorMiddlewares, Close)
  ELSE Append(middlewareChain.middlewares, Close)

\* The copy next() takes the function from, given the current error.
HandlersOf(run, error) ==
  IF error # Null THEN run.errorMiddlewares ELSE run.middlewares

\* Position with one index for both copies.
PositionOfBoth(run, error) == run.index + run.errorIndex + 1

\* The place in that copy, counted from 1.
Position(run, error) ==
  IF error # Null THEN run.errorIndex + 1 ELSE run.index + 1

\* Advance without the ++.
AdvanceNothing(run, error) == run

\* The ++ of the index next() has read.
Advance(run, error) ==
  IF error # Null
  THEN [run EXCEPT !.errorIndex = @ + 1]
  ELSE [run EXCEPT !.index = @ + 1]

\* The function next(err) calls in the execution run.
Callee(run, err) ==
  LET error == CurrentError(run, err)
  IN IF Position(run, error) \in 1..Len(HandlersOf(run, error))
     THEN HandlersOf(run, error)[Position(run, error)]
     ELSE NotAFunction

\* The execution run after next(err) has read its function and before the
\* function is called.
Called(run, err) ==
  LET error == CurrentError(run, err)
  IN [Advance(run, error) EXCEPT
        !.error = error,
        !.invoked = Append(@, Invocation(err, Callee(run, err), error))]

\* A function being executed: the execution it belongs to, the function,
\* and whether handle() or a next() called later is waiting for it.
Frame(h, func, from) == [h |-> h, func |-> func, from |-> from]

\* Whose code is running: the innermost function being executed, or the
\* application when there is none.
Top == stack[Len(stack)]

\* NextCalled with one cursor for all the executions of the chain.
NextCalledOnChain(hs, h, err, from) ==
  LET func == Callee(hs[h], err)
  IN /\ handles' = [g \in DOMAIN hs |->
                      IF g = h THEN Called(hs[h], err)
                      ELSE [Advance(hs[g], CurrentError(hs[h], err)) EXCEPT
                              !.error = CurrentError(hs[h], err)]]
     /\ stack' = IF func.name > 0 THEN Append(stack, Frame(h, func, from)) ELSE stack

\* The effect of next(err) in execution h of the lists hs, called by `from`:
\* close returns at once, a registered function starts to execute, and
\* calling what is not a function is a TypeError for the caller.
NextCalled(hs, h, err, from) ==
  LET func == Callee(hs[h], err)
  IN /\ handles' = [hs EXCEPT ![h] = Called(hs[h], err)]
     /\ stack' = IF func.name > 0 THEN Append(stack, Frame(h, func, from)) ELSE stack

\* Handle that looks for a function in either list.
HandleAnyRegistered ==
  IF Registered < 1
  THEN /\ last' = Step("handle", 0, 0, "invalid_state", 1)
       /\ UNCHANGED <<flow, deferred, deferredCalls, middlewareChain, handles, stack>>
  ELSE /\ NextCalled(Append(handles, NewHandle(middlewareChain)), Len(handles) + 1,
                     Null, "handle")
       /\ last' = Step("next", Len(handles) + 1, 0, "none", 0)
       /\ UNCHANGED <<flow, deferred, deferredCalls, middlewareChain>>

\* handle(req, res), called by the application or by a function being
\* executed.
Handle ==
  IF Len(middlewareChain.middlewares) < 1
  THEN /\ last' = Step("handle", 0, 0, "invalid_state", 1)
       /\ UNCHANGED <<flow, deferred, deferredCalls, middlewareChain, handles, stack>>
  ELSE /\ NextCalled(Append(handles, NewHandle(middlewareChain)), Len(handles) + 1,
                     Null, "handle")
       /\ last' = Step("next", Len(handles) + 1, 0, "none", 0)
       /\ UNCHANGED <<flow, deferred, deferredCalls, middlewareChain>>

\* next(err) called in execution h, by the function being executed in it or,
\* when nothing is being executed, by a function of h that kept next.
NextCall(h, err) ==
  /\ stack # <<>> => Top.h = h
  /\ NextCalled(handles, h, err, "next")
  /\ last' = Step("next", h, 0,
                  IF Callee(handles[h], err) = NotAFunction THEN "TypeError" ELSE "none", 0)
  /\ UNCHANGED <<flow, deferred, deferredCalls, middlewareChain>>

\* HandleReturns that returns the closure whatever was collected.
HandleReturnsClosure(run) == "teardown"

\* What handle() returns once its next() has returned.
HandleReturns(run) == IF Len(run.teardowns) > 0 THEN "teardown" ELSE "undefined"

\* Push that puts the value in front.
Unshift(ts, name) == <<name>> \o ts

\* `teardowns.push(value)`, for the teardown of the function called `name`.
Push(ts, name) == Append(ts, name)

\* The teardown returned by the function called `name`.
TeardownOf(name) == Function(name, 0)

\* ShiftValue that takes from the end of the list.
PopValue(ts) == ts[Len(ts)]

\* `teardowns.shift()`: the value it returns and what it leaves.
ShiftValue(ts) == Head(ts)
Shifted(ts) == Tail(ts)

\* The execution run after `value = teardowns.shift()`, at the call of
\* value().
Shift(run) ==
  [run EXCEPT !.teardowns = Shifted(@),
              !.executed = Append(@, ShiftValue(run.teardowns))]

\* Continues that leaves the loop when the teardown has thrown.
ContinuesUnlessThrown(threw) == ~threw

\* Whether teardown() is called again after a teardown that has returned
\* or thrown: it is, in the `finally`.
Continues(threw) == TRUE

\* The closure handle() has returned, called by the application or by a
\* function being executed: the first of teardowns is removed and starts to
\* execute; with nothing in teardowns the closure returns at once.
TeardownCall(h) ==
  /\ handles[h].pc = "teardown"
  /\ IF handles[h].teardowns = <<>>
     THEN UNCHANGED <<handles, stack>>
     ELSE /\ handles' = [handles EXCEPT ![h] = Shift(handles[h])]
          /\ stack' = Append(stack, Frame(h, TeardownOf(ShiftValue(handles[h].teardowns)),
                                         "teardown"))
  /\ last' = Step("teardown", h, 0, "none", 0)
  /\ UNCHANGED <<flow, deferred, deferredCalls, middlewareChain>>

\* The teardown being executed returns or, if threw, throws: what it throws
\* is caught and logged, and the `finally` calls teardown() again, which
\* takes the next of teardowns or, with none left, returns to its caller.
TeardownDone(threw) ==
  LET h == Top.h
      run == handles[h]
  IN /\ IF Continues(threw) /\ run.teardowns # <<>>
        THEN /\ handles' = [handles EXCEPT ![h] = Shift(run)]
             /\ stack' = [stack EXCEPT ![Len(stack)] =
                            Frame(h, TeardownOf(ShiftValue(run.teardowns)), "teardown")]
        ELSE /\ handles' = handles
             /\ stack' = SubSeq(stack, 1, Len(stack) - 1)
     /\ last' = Step("teardown", h, 0, "none", IF threw THEN 1 ELSE 0)

\* The function being executed returns `returned`, a function or nothing:
\* next() pushes a function to teardowns and returns to its caller; when
\* the caller is handle(), handle() returns. What a teardown returns is
\* ignored.
Returns(returned) ==
  /\ stack # <<>>
  /\ IF Top.from = "teardown" THEN TeardownDone(FALSE)
     ELSE
       /\ LET h == Top.h
              run == IF returned = "fn"
                     THEN [handles[h] EXCEPT !.teardowns = Push(@, Top.func.name),
                                             !.pushed = Push(@, Top.func.name)]
                     ELSE handles[h]
          IN IF Top.from = "handle"
             THEN /\ handles' = [handles EXCEPT ![h] = [run EXCEPT !.pc = HandleReturns(run)]]
                  /\ last' = Step("handle", h, IF HandleReturns(run) = "teardown" THEN 1 ELSE 0,
                                  "none", 0)
             ELSE /\ handles' = [handles EXCEPT ![h] = run]
                  /\ last' = Step("next", h, 0, "none", 0)
       /\ stack' = SubSeq(stack, 1, Len(stack) - 1)
  /\ UNCHANGED <<flow, deferred, deferredCalls, middlewareChain>>

\* Throws with next() catching what the function has thrown and calling the
\* next error middleware with it.
ThrowsToErrorTrack ==
  /\ stack # <<>>
  /\ IF Top.from = "teardown" THEN TeardownDone(TRUE)
     ELSE
       /\ handles' = [handles EXCEPT ![Top.h] = Called(handles[Top.h], ErrorOf(8))]
       /\ stack' = IF Callee(handles[Top.h], ErrorOf(8)).name > 0
                   THEN [stack EXCEPT ![Len(stack)] =
                           Frame(Top.h, Callee(handles[Top.h], ErrorOf(8)), Top.from)]
                   ELSE SubSeq(stack, 1, Len(stack) - 1)
       /\ last' = Step("next", Top.h, 0, "none", 0)
  /\ UNCHANGED <<flow, deferred, deferredCalls, middlewareChain>>

\* The function being executed throws, or does not catch what a call it
\* made has thrown: next() pushes nothing and throws to its caller; when the
\* caller is handle(), handle() throws.
Throws ==
  /\ stack # <<>>
  /\ IF Top.from = "teardown" THEN TeardownDone(TRUE)
     ELSE
       /\ IF Top.from = "handle"
          THEN /\ handles' = [handles EXCEPT ![Top.h].pc = "thrown"]
               /\ last' = Step("handle", Top.h, 0, "thrown", 0)
          ELSE /\ handles' = handles
               /\ last' = Step("next", Top.h, 0, "thrown", 0)
       /\ stack' = SubSeq(stack, 1, Len(stack) - 1)
  /\ UNCHANGED <<flow, deferred, deferredCalls, middlewareChain>>

\* The lengths of the functions the application gives to use(), and the
\* arguments of one use() call.
Arities == 0..MaxArity
UseArguments == UNION {[1..m -> Arities] : m \in 1..MaxUse}

\* What a function being executed may return.
MiddlewareReturns == {"void", "fn"}

(* The registration specification: use() with functions of every length,
   and handle() on whatever is registered, with functions that return
   without calling next(). *)

InitUse ==
  /\ NoFlow
  /\ NoUtils
  /\ last = Idle

NextUse ==
  \/ \E lengths \in UseArguments :
       Registered + Len(lengths) <= MaxMiddlewares /\ Use(lengths)
  \/ Len(handles) < MaxHandles /\ Handle
  \/ \E returned \in MiddlewareReturns : Returns(returned)

SpecUse == InitUse /\ [][NextUse]_vars

(* The dispatch specification: one handle() on a chain of middlewares and
   error middlewares, with functions that call next() any number of times,
   with or without an error, before or after they return, and that return
   or throw. *)

\* The lengths of a middleware and of an error middleware, and the errors
\* a function passes to next().
HandlerArities == {3, 4}
NextErrors == {ErrorOf(7), ErrorOf(8)}

\* The next() calls made in execution h so far, its own included.
NextCalls(h) == handles[h].index + handles[h].errorIndex

\* The lists after use() was called with functions of the given lengths.
Used(lengths) ==
  ForEachUse(NewMiddlewareChain,
             [i \in 1..Len(lengths) |-> Function(i, lengths[i])]).chain

InitHandle ==
  /\ NoFlow
  /\ deferred = NewDeferred
  /\ deferredCalls = <<>>
  /\ \E m \in 1..MaxMiddlewares : \E lengths \in [1..m -> HandlerArities] :
       middlewareChain = Used(lengths)
  /\ handles = <<>>
  /\ stack = <<>>
  /\ last = Idle

NextHandle ==
  \/ handles = <<>> /\ Handle
  \/ \E h \in HandleIds : NextCalls(h) < MaxNext /\ NextCall(h, Null)
  \/ \E h \in HandleIds, err \in NextErrors : NextCalls(h) < MaxNext /\ NextCall(h, err)
  \/ \E returned \in MiddlewareReturns : Returns(returned)
  \/ Throws

SpecHandle == InitHandle /\ [][NextHandle]_vars

(* The interleaving specification: use() and up to MaxHandles executions
   of handle() in any order, with functions that call next() with or
   without an error, before or after they return. *)

NextHandles ==
  \/ \E length \in HandlerArities : Registered < MaxMiddlewares /\ Use(<<length>>)
  \/ Len(handles) < MaxHandles /\ Handle
  \/ \E h \in HandleIds : NextCalls(h) < MaxNext /\ NextCall(h, Null)
  \/ \E h \in HandleIds : NextCalls(h) < MaxNext /\ NextCall(h, ErrorOf(7))
  \/ \E returned \in MiddlewareReturns : Returns(returned)

SpecHandles == InitUse /\ [][NextHandles]_vars

(* The teardown specification: one handle() on a chain of middlewares and
   error middlewares, with functions that call next() before or after they
   return, that return a teardown or nothing or throw, and the closure
   handle() has returned, called any number of times at any moment, with
   teardowns that return or throw. *)

NextTeardown ==
  \/ handles = <<>> /\ Handle
  \/ \E h \in HandleIds : NextCalls(h) < MaxNext /\ NextCall(h, Null)
  \/ \E h \in HandleIds : NextCalls(h) < MaxNext /\ NextCall(h, ErrorOf(7))
  \/ \E returned \in MiddlewareReturns : Returns(returned)
  \/ Throws
  \/ \E h \in HandleIds : TeardownCall(h)

SpecTeardown == InitHandle /\ [][NextTeardown]_vars

(* The synchronous specification: one handle() on a chain in which every
   function calls next() at most once, while it executes, and returns a
   teardown, and the closure handle() has returned. *)

\* The function being executed in execution h is the one called last in h.
CalledLast(h) ==
  /\ stack # <<>>
  /\ Top.h = h
  /\ Top.from # "teardown"
  /\ Top.func = handles[h].invoked[Len(handles[h].invoked)].func

NextSync ==
  \/ handles = <<>> /\ Handle
  \/ \E h \in HandleIds : CalledLast(h) /\ NextCall(h, Null)
  \/ Returns("fn")
  \/ \E h \in HandleIds : TeardownCall(h)

SpecSync == InitHandle /\ [][NextSync]_vars

-----------------------------------------------------------------------------
(* The life-cycle specification: every call of the public interface, in any
   order and interleaved with the steps of a run, on up to MaxNodes
   instances. It follows a single consumer run besides the run share()
   starts; concurrent runs are the subject of SpecRuns. *)

Init ==
  /\ nodes = <<NewNode>>
  /\ runs = <<>>
  /\ rounds = <<>>
  /\ last = Step("new", 0, 1, "none", 0)
  /\ NoUtils

Next ==
  \/ Len(nodes) < MaxNodes /\ Construct
  \/ \E n \in NodeIds : Len(nodes) < MaxNodes /\ Chain(n, Inc, Recover)
  \/ \E n \in NodeIds :
       /\ nodes[n].sharedResultPromise # 0 \/ (Len(nodes) < MaxNodes /\ runs = <<>>)
       /\ Share(n)
  \/ \E n \in NodeIds, receiver \in Receivers : Produce(n, receiver)
  \/ \E n \in NodeIds :
       /\ nodes[n].sharedResultPromise # 0 \/ runs = <<>>
       /\ ToPromise(n)
  \/ Progress(ReceiverReturns, EmitValues, EmitErrors)
  \/ \E k \in RoundIds : StageCall(k)
  \/ \E k \in RoundIds : StageSettle(k)

Spec == Init /\ [][Next]_vars

-----------------------------------------------------------------------------
(* The specification of concurrent runs: up to MaxRuns toPromise() calls on
   one root instance, whose steps and signals interleave in every order. *)

InitRuns ==
  /\ nodes = <<NewNode>>
  /\ runs = <<>>
  /\ rounds = <<>>
  /\ last = Idle
  /\ NoUtils

NextRuns ==
  \/ Produce(Len(nodes), 1)
  \/ Len(runs) < MaxRuns /\ ToPromise(Len(nodes))
  \/ Progress({"void", "complete"}, {Plain(1), Plain(2)}, EmitErrors)

SpecRuns == InitRuns /\ [][NextRuns]_vars

-----------------------------------------------------------------------------
(* The chain specification: a flow built by up to MaxStages chain() calls
   with handlers that return plain values or throw, and one run of it. *)

\* The instances after root.chain(..).chain(..)..., one call per stage.
RECURSIVE ChainAll(_, _)
ChainAll(ns, stages) ==
  IF stages = <<>> THEN ns
  ELSE ChainAll(Chained(ns, Len(ns), stages[1][1], stages[1][2]), Tail(stages))

PlainArguments == {NoHandler, Inc, Throw} \X {NoHandler, Recover}

InitChain ==
  /\ \E m \in 1..MaxStages : \E stages \in [1..m -> PlainArguments] :
       nodes = ChainAll(<<NewNode>>, stages)
  /\ runs = <<>>
  /\ rounds = <<>>
  /\ last = Idle
  /\ NoUtils

NextChain ==
  \/ Produce(Len(nodes), 1)
  \/ runs = <<>> /\ ToPromise(Len(nodes))
  \/ Progress(ReceiverReturns, EmitValues, EmitErrors)
  \/ \E k \in RoundIds : StageCall(k)
  \/ \E k \in RoundIds : StageSettle(k)

SpecChain == InitChain /\ [][NextChain]_vars

\* SpecChain with the promise jobs of a run executed: the continuation of
\* produceNext's await, the handlers chained on a settled promise, and the
\* continuation of `await this.produceNext(...)` in toPromise().
SpecChainFair ==
  /\ SpecChain
  /\ \A k \in 1..MaxRounds : WF_vars(k \in RoundIds /\ RoundReturn(k))
  /\ \A k \in 1..MaxRounds : WF_vars(k \in RoundIds /\ StageCall(k))
  /\ \A k \in 1..MaxRounds : WF_vars(k \in RoundIds /\ StageSettle(k))
  /\ \A r \in 1..MaxRuns : WF_vars(r \in RunIds /\ RunResult(r))

-----------------------------------------------------------------------------
(* The sub-chain specification: a flow built by up to MaxSubStages chain()
   calls whose handlers may return an instance created before the call,
   directly or through a promise, and one run of it with up to MaxRounds
   production rounds. The flow has receiver 1; every other instance has been
   given receiver 2. *)

\* The arguments of the chain() call made on instance n.
SubArguments(n) ==
  {<<Inc, NoHandler>>, <<Throw, NoHandler>>}
    \cup {<<Sub(m), NoHandler>> : m \in 1..n}
    \cup {<<AsyncSub(m), NoHandler>> : m \in 1..n}
    \cup {<<NoHandler, Sub(m)>> : m \in 1..n}

\* The instances after produce(1) on the last of ns and produce(2) on the others.
RECURSIVE ProducedAll(_, _)
ProducedAll(ns, n) ==
  IF n = 0 THEN ns
  ELSE ProducedAll(Produced(ns, n, IF n = Len(ns) THEN 1 ELSE 2), n - 1)

InitSub ==
  /\ \E m \in 1..MaxSubStages : \E stages \in [1..m -> SubArguments(m)] :
       /\ \A i \in 1..m : stages[i] \in SubArguments(i)
       /\ nodes = ProducedAll(ChainAll(<<NewNode>>, stages), m + 1)
  /\ runs = <<>>
  /\ rounds = <<>>
  /\ last = Idle
  /\ NoUtils

NextSub ==
  \/ runs = <<>> /\ ToPromise(Len(nodes))
  \/ Progress({"fn", "complete"}, {Plain(1)}, EmitErrors)
  \/ \E k \in RoundIds : StageCall(k)
  \/ \E k \in RoundIds : StageSettle(k)
  \/ \E k \in RoundIds, returned \in {"fn", "complete"} :
       Len(rounds) < MaxRounds /\ StageDispatch(k, returned)
  \/ \E k \in RoundIds : StageAdopt(k)

SpecSub == InitSub /\ [][NextSub]_vars

\* SpecSub with the continuation of every `await (request &&
\* request.operator)` run: the awaited value is not a promise, so the
\* continuation is a job the engine runs.
SpecSubFair ==
  SpecSub /\ \A k \in 1..MaxRounds : WF_vars(k \in RoundIds /\ RoundReturn(k))

\* The flows of SpecSub with receivers that call next() and error() any
\* number of times, in any order, and return nothing.
NextObserver ==
  \/ runs = <<>> /\ ToPromise(Len(nodes))
  \/ \E r \in RunIds : RunStart(r, "void")
  \/ \E k \in RoundIds : RoundReturn(k)
  \/ \E k \in RoundIds, value \in EmitValues : Signal(k, "next", value)
  \/ \E k \in RoundIds, reason \in EmitErrors : Signal(k, "error", reason)
  \/ \E k \in RoundIds : ObserverComplete(k)
  \/ \E k \in RoundIds : StageCall(k)
  \/ \E k \in RoundIds : StageSettle(k)
  \/ \E k \in RoundIds : Len(rounds) < MaxRounds /\ StageDispatch(k, "void")
  \/ \E k \in RoundIds : StageAdopt(k)
  \/ \E r \in RunIds : RunResult(r)
  \/ \E r \in RunIds : RunClosed(r)

SpecObserver == InitSub /\ [][NextObserver]_vars

\* The flows of SpecSub with the receiver of the README: it gives one value to
\* next(), during the invocation or later, and returns () => observer.complete();
\* nothing else calls complete() or error().
NextDoc ==
  \/ runs = <<>> /\ ToPromise(Len(nodes))
  \/ \E r \in RunIds : RunStart(r, "complete")
  \/ \E k \in RoundIds : RoundReturn(k)
  \/ \E k \in RoundIds : rounds[k].first.sig = "none" /\ ObserverNext(k, Plain(1))
  \/ \E k \in RoundIds : StageCall(k)
  \/ \E k \in RoundIds : StageSettle(k)
  \/ \E k \in RoundIds : Len(rounds) < MaxRounds /\ StageDispatch(k, "complete")
  \/ \E k \in RoundIds : StageAdopt(k)
  \/ \E r \in RunIds : RunResult(r)
  \/ \E r \in RunIds : RunClosed(r)

SpecDoc == InitSub /\ [][NextDoc]_vars

-----------------------------------------------------------------------------
(* The order specification: two instances derived from one root by the same
   chain() call, each with one run. The first is given its receiver before
   toPromise() is called on it, the second after. The continuation of
   `await this.nextReceiverDeferred.promise` is a job the engine runs once
   the promise is fulfilled. *)

ProduceFirst == 2
ToPromiseFirst == 3

InitOrder ==
  /\ \E stage \in PlainArguments :
       nodes = Chained(Chained(<<NewNode>>, 1, stage[1], stage[2]), 1, stage[1], stage[2])
  /\ runs = <<>>
  /\ rounds = <<>>
  /\ last = Idle
  /\ NoUtils

NextOrder ==
  \/ Produce(ProduceFirst, 1)
  \/ /\ nodes[ProduceFirst].hasReceiver
     /\ \A r \in RunIds : runs[r].node # ProduceFirst
     /\ ToPromise(ProduceFirst)
  \/ /\ \A r \in RunIds : runs[r].node # ToPromiseFirst
     /\ ToPromise(ToPromiseFirst)
  \/ /\ \E r \in RunIds : runs[r].node = ToPromiseFirst
     /\ Produce(ToPromiseFirst, 1)
  \/ Progress({"void", "complete"}, {Plain(1)}, EmitErrors)
  \/ \E k \in RoundIds : StageCall(k)
  \/ \E k \in RoundIds : StageSettle(k)

SpecOrder ==
  /\ InitOrder
  /\ [][NextOrder]_vars
  /\ \A r \in 1..MaxRuns :
       WF_vars(r \in RunIds /\ \E returned \in {"void", "complete"} : RunStart(r, returned))

-----------------------------------------------------------------------------
(* Notions the properties share *)

\* The run has settled.
RunSettled(r) == runs[r].pc \in {"rejected", "fulfilled"}

\* The round of run r that toPromise() started (the run is past its first await).
HasRoot(r) == runs[r].root # 0
Root(r) == rounds[runs[r].root]

\* A value that a promise adopts instead of being fulfilled with it.
IsThenable(x) == x.k \in {"promise_ok", "promise_err", "promise_node"}

\* What the chain() documentation promises of one stage for handlers that
\* return plain values or throw: a value goes through onSuccess, a failure
\* is recovered by onFailure, a missing handler passes the outcome on, a
\* throw is a failure.
ExpectedStage(stage, outcome) ==
  LET handler == IF outcome.st = "ok" THEN stage.onSuccess ELSE stage.onFailure
  IN  IF handler = NoHandler THEN outcome
      ELSE IF Call(handler, outcome.val).thrown
           THEN Rejected(Call(handler, outcome.val).val)
           ELSE Fulfilled(Call(handler, outcome.val).val)

\* The left-to-right fold of ExpectedStage over the stages.
RECURSIVE ExpectedFold(_, _)
ExpectedFold(stages, outcome) ==
  IF stages = <<>> THEN outcome
  ELSE ExpectedFold(Tail(stages), ExpectedStage(Head(stages), outcome))

-----------------------------------------------------------------------------
(* Properties *)

\* C1, as stated: on a root instance, when the first call on the observer of
\* a run is next(x) and complete() is called, a settled toPromise() is
\* fulfilled with exactly x, whatever x is.
C1_RoundTripEveryValue ==
  \A r \in RunIds :
    (/\ nodes[runs[r].node].operator = <<>>
     /\ HasRoot(r)
     /\ Root(r).first.sig = "next"
     /\ Root(r).completeCalled
     /\ RunSettled(r))
    => runs[r].result = Fulfilled(Root(r).first.arg)

\* C1, amended: the same for every x that is not a thenable. After next(x)
\* the run is never rejected and, once settled, is fulfilled with exactly x;
\* after complete() as well, neither await of toPromise() is left waiting
\* once produceNext has returned.
C1_RoundTrip ==
  \A r \in RunIds :
    (/\ nodes[runs[r].node].operator = <<>>
     /\ HasRoot(r)
     /\ Root(r).first.sig = "next"
     /\ ~IsThenable(Root(r).first.arg))
    => /\ RunSettled(r) => runs[r].result = Fulfilled(Root(r).first.arg)
       /\ (Root(r).completeCalled /\ Root(r).pc = "returned")
            => /\ Result(runs[r].root) = Fulfilled(Root(r).first.arg)
               /\ IsSettled(runs[r].closedDeferred.promise)

\* C1 happens: a run of a root instance is fulfilled after next(x), complete().
C1_Witness ==
  \E r \in RunIds :
    /\ nodes[runs[r].node].operator = <<>>
    /\ runs[r].pc = "fulfilled"
    /\ Root(r).first = [sig |-> "next", arg |-> Plain(1)]
    /\ Root(r).completeCalled

\* C2: for a flow whose handlers return plain values or throw, the promise
\* of produceNext settles to the left-to-right fold of the stages over the
\* outcome of the root round, and a settled toPromise() has that outcome.
C2_ChainFold ==
  \A r \in RunIds :
    HasRoot(r) =>
      LET expected == ExpectedFold(nodes[runs[r].node].operator,
                                   Root(r).resultDeferred.promise)
      IN  /\ IsSettled(Result(runs[r].root)) => Result(runs[r].root) = expected
          /\ RunSettled(r) => runs[r].result = expected
          /\ runs[r].pc = "fulfilled" => expected.st = "ok"
          /\ runs[r].pc = "rejected" => expected.st = "err"

\* C2 happens: the flow chain(inc).chain(throw).chain(null, recover) of
\* Scenario D, given 1, is fulfilled with 3.
C2_Witness ==
  \E r \in RunIds :
    /\ nodes[runs[r].node].operator =
         << [onSuccess |-> Inc, onFailure |-> NoHandler],
            [onSuccess |-> Throw, onFailure |-> NoHandler],
            [onSuccess |-> NoHandler, onFailure |-> Recover] >>
    /\ runs[r].pc = "fulfilled"
    /\ runs[r].result = Fulfilled(Plain(3))
    /\ Root(r).first = [sig |-> "next", arg |-> Plain(1)]

\* The promise a first observer call leaves in resultDeferred.
FirstOutcome(first) ==
  CASE first.sig = "next" -> PromiseResolve(first.arg)
    [] first.sig = "error" -> Rejected(first.arg)
    [] OTHER -> Pending

\* The handlers of the stages are all plain: none gives a next request.
IsPlainOperator(stages) ==
  \A i \in 1..Len(stages) :
    /\ stages[i].onSuccess \in {NoHandler, Inc, Throw, Recover}
    /\ stages[i].onFailure \in {NoHandler, Inc, Throw, Recover}

\* C3: a handler that returns an instance S, or a promise of one, has S
\* dispatched once to the receiver of the run, never to a receiver
\* registered on S, on an observer of its own and without a completion
\* handler; the stage settles as the round of S does, which for plain
\* handlers of S is the fold of S's stages; S itself is never a stage value
\* or a result.
C3_SubChainDispatch ==
  /\ \A c \in RoundIds :
       rounds[c].parent # 0 =>
         LET p == rounds[c].parent
             s == rounds[c].parentStage
             root == rounds[runs[rounds[c].run].root]
         IN  /\ rounds[c].run = rounds[p].run
             /\ rounds[c].receiver = root.receiver
             /\ ReceiverRef(root.receiver) =
                  nodes[runs[rounds[c].run].node].nextReceiverDeferred.promise.val
             /\ ~rounds[c].hasCompletionHandler
             /\ \E i \in 1..Len(OperatorOf(p)) :
                  /\ i = s
                  /\ \E h \in {OperatorOf(p)[i].onSuccess, OperatorOf(p)[i].onFailure} :
                       h \in {Sub(rounds[c].request), AsyncSub(rounds[c].request)}
             /\ rounds[p].waiting = c =>
                  /\ rounds[p].stage = s
                  /\ IsSettled(StageInput(p))
                  /\ LET h == IF StageInput(p).st = "ok"
                              THEN OperatorOf(p)[s].onSuccess
                              ELSE OperatorOf(p)[s].onFailure
                     IN  h \in {Sub(rounds[c].request), AsyncSub(rounds[c].request)}
             /\ rounds[c].resultDeferred.promise = FirstOutcome(rounds[c].first)
             /\ (IsSettled(Result(c)) /\ IsPlainOperator(OperatorOf(c)))
                  => Result(c) = ExpectedFold(OperatorOf(c), FirstOutcome(rounds[c].first))
             /\ rounds[p].waiting # c => IsSettled(Result(c))
             /\ (rounds[p].waiting # c /\ rounds[p].stage = s + 1)
                  => rounds[p].value = Result(c)
             /\ \A d \in RoundIds :
                  (rounds[d].parent = p /\ rounds[d].parentStage = s) => d = c
  /\ \A k \in RoundIds :
       /\ IsSettled(rounds[k].value) => ~IsNext(rounds[k].value.val)
       /\ IsSettled(Result(k)) => ~IsNext(Result(k).val)
  /\ \A r \in RunIds : RunSettled(r) => ~IsNext(runs[r].result.val)

\* C3 happens: a stage returned an instance that has a stage of its own and
\* a receiver of its own; the request went to the receiver of the run, the
\* stage took the sub-chain's result and the run is fulfilled with it.
C3_Witness ==
  \E c \in RoundIds :
    /\ rounds[c].parent # 0
    /\ OperatorOf(c) = << [onSuccess |-> Inc, onFailure |-> NoHandler] >>
    /\ nodes[rounds[c].request].nextReceiverDeferred.promise = Fulfilled(ReceiverRef(2))
    /\ rounds[c].receiver = 1
    /\ rounds[c].first = [sig |-> "next", arg |-> Plain(1)]
    /\ Result(c) = Fulfilled(Plain(2))
    /\ rounds[rounds[c].parent].stage = rounds[c].parentStage + 1
    /\ rounds[rounds[c].parent].value = Fulfilled(Plain(2))
    /\ runs[rounds[c].run].pc = "fulfilled"
    /\ runs[rounds[c].run].result = Fulfilled(Plain(2))

\* The rounds that were started for instance n, and the runs of n.
RoundsOf(n) == {k \in RoundIds : rounds[k].request = n}
RunsOf(n) == {r \in RunIds : runs[r].node = n}

\* Every run settles by the stages its own instance holds, applied to the
\* first signal of its own root round.
OutcomeOfOwnStages ==
  \A r \in RunIds :
    HasRoot(r) =>
      LET expected == ExpectedFold(nodes[runs[r].node].operator, FirstOutcome(Root(r).first))
      IN  /\ IsSettled(Result(runs[r].root)) => Result(runs[r].root) = expected
          /\ RunSettled(r) => runs[r].result = expected

\* C4: a.chain(...) returns a new instance and leaves every existing one as
\* it was (operator, receiver slot, shared promise), starts nothing, and no
\* step ever changes the stages of an instance; so a run of N settles by N's
\* own stages, whatever was derived from N before or after.
C4_ChainLeavesReceiver ==
  [][/\ last'.op = "chain" =>
          /\ Len(nodes') = Len(nodes) + 1
          /\ last'.ret = Len(nodes')
          /\ last'.ret # last'.node
          /\ \A n \in NodeIds : nodes'[n] = nodes[n]
          /\ runs' = runs
          /\ rounds' = rounds
     /\ \A n \in NodeIds : nodes'[n].operator = nodes[n].operator
     /\ OutcomeOfOwnStages']_vars

\* C4 happens: toPromise() was called on a root instance N after N.chain(inc,
\* recover), and is fulfilled with the value given to next(), not run
\* through inc.
C4_Witness ==
  \E r \in RunIds, d \in NodeIds :
    /\ runs[r].consumer
    /\ d <= runs[r].born
    /\ nodes[runs[r].node].operator = <<>>
    /\ nodes[d].operator = << [onSuccess |-> Inc, onFailure |-> Recover] >>
    /\ runs[r].pc = "fulfilled"
    /\ Root(r).first = [sig |-> "next", arg |-> Plain(1)]
    /\ runs[r].result = Fulfilled(Plain(1))

\* C5: produce() on an instance that has a receiver throws 'invalid_state',
\* logs once and changes nothing; on one that has none it fulfils the
\* receiver promise with its argument; that promise never changes once
\* fulfilled, and the root round of every run of the instance is given the
\* receiver it holds.
C5_ProduceOnce ==
  [][/\ last'.op = "produce" =>
          IF nodes[last'.node].hasReceiver
          THEN /\ last'.err = "invalid_state"
               /\ last'.logs = 1
               /\ nodes' = nodes
               /\ runs' = runs
               /\ rounds' = rounds
          ELSE /\ last'.err = "none"
               /\ last'.logs = 0
               /\ nodes'[last'.node].hasReceiver
               /\ nodes'[last'.node].nextReceiverDeferred.promise =
                    Fulfilled(ReceiverRef(last'.ret))
     /\ \A n \in NodeIds :
          /\ nodes[n].hasReceiver => nodes'[n].hasReceiver
          /\ IsSettled(nodes[n].nextReceiverDeferred.promise)
               => nodes'[n].nextReceiverDeferred = nodes[n].nextReceiverDeferred
     /\ \A k \in 1..Len(rounds') :
          rounds'[k].parent = 0 =>
            nodes'[rounds'[k].request].nextReceiverDeferred.promise =
              Fulfilled(ReceiverRef(rounds'[k].receiver))]_vars

\* C5 happens: produce(r2) has just failed on an instance whose receiver is
\* r1, and a run of that instance has invoked r1.
C5_Witness ==
  /\ last.op = "produce"
  /\ last.err = "invalid_state"
  /\ last.ret = 2
  /\ nodes[last.node].nextReceiverDeferred.promise = Fulfilled(ReceiverRef(1))
  /\ \E k \in RoundsOf(last.node) : rounds[k].receiver = 1

\* C6: for an instance that is not shared, every invocation of its receiver
\* is the root round of a toPromise() call a consumer made on it, one per
\* call at most; constructing, produce() and chain() invoke nothing.
C6_LazyExecution ==
  \A n \in NodeIds :
    nodes[n].sharedResultPromise = 0 =>
      /\ \A k \in RoundsOf(n) :
           /\ runs[rounds[k].run].node = n
           /\ runs[rounds[k].run].consumer
           /\ runs[rounds[k].run].root = k
      /\ Cardinality(RoundsOf(n)) <= Cardinality({r \in RunsOf(n) : runs[r].consumer})

\* C6 happens: an instance has its receiver and a derived instance, no
\* consumer has called toPromise(), and no receiver has been invoked.
C6_Witness ==
  /\ Len(nodes) = 2
  /\ nodes[1].hasReceiver
  /\ nodes[1].sharedResultPromise = 0
  /\ nodes[2].operator # <<>>
  /\ nodes[2].hasReceiver
  /\ runs = <<>>
  /\ rounds = <<>>

\* C7: every toPromise() call on an instance that is not shared is a run of
\* its own: a run past its first await has invoked the receiver exactly once,
\* with the instance as the request and an observer no other run has, so k
\* started runs are k invocations; a run is closed by complete() on its own
\* observer only, and settles by the first signal on its own observer.
C7_IndependentRuns ==
  /\ \A r \in RunIds :
       /\ HasRoot(r) <=> runs[r].pc # "awaitReceiver"
       /\ HasRoot(r) =>
            /\ Root(r).run = r
            /\ Root(r).parent = 0
            /\ Root(r).request = runs[r].node
            /\ Root(r).hasCompletionHandler
            /\ Root(r).resultDeferred.promise = FirstOutcome(Root(r).first)
            /\ IsSettled(runs[r].closedDeferred.promise) <=> Root(r).completeCalled
            /\ runs[r].pc = "fulfilled" =>
                 /\ Root(r).first.sig = "next"
                 /\ Root(r).completeCalled
                 /\ runs[r].result = FirstOutcome(Root(r).first)
            /\ runs[r].pc = "rejected" =>
                 /\ Root(r).first.sig = "error"
                 /\ runs[r].result = FirstOutcome(Root(r).first)
       /\ ~HasRoot(r) => ~IsSettled(runs[r].closedDeferred.promise)
  /\ \A r1, r2 \in RunIds :
       (HasRoot(r1) /\ HasRoot(r2) /\ runs[r1].root = runs[r2].root) => r1 = r2
  /\ \A n \in NodeIds :
       Cardinality(RoundsOf(n)) = Cardinality({r \in RunsOf(n) : HasRoot(r)})

\* C7 happens: two runs of one instance, two invocations of its receiver,
\* one fulfilled with 1 and the other with 2.
C7_Witness ==
  \E r1, r2 \in RunIds :
    /\ r1 # r2
    /\ runs[r1].node = runs[r2].node
    /\ Cardinality(RoundsOf(runs[r1].node)) = 2
    /\ runs[r1].pc = "fulfilled"
    /\ runs[r1].result = Fulfilled(Plain(1))
    /\ runs[r2].pc = "fulfilled"
    /\ runs[r2].result = Fulfilled(Plain(2))

\* C8: a shared instance S has exactly one run, the one share() started, so
\* its receiver is invoked at most once; toPromise() on S hands out the
\* promise of that run and starts nothing; share() on S returns S and
\* changes nothing.
C8_MulticastShare ==
  [][/\ \A n \in 1..Len(nodes') :
          nodes'[n].sharedResultPromise # 0 =>
            /\ {r \in 1..Len(runs') : runs'[r].node = n} = {nodes'[n].sharedResultPromise}
            /\ ~runs'[nodes'[n].sharedResultPromise].consumer
            /\ Cardinality({k \in 1..Len(rounds') : rounds'[k].request = n}) <= 1
     /\ (last'.op = "toPromise" /\ nodes[last'.node].sharedResultPromise # 0) =>
          /\ last'.ret = nodes[last'.node].sharedResultPromise
          /\ nodes' = nodes
          /\ runs' = runs
          /\ rounds' = rounds
     /\ (last'.op = "share" /\ nodes[last'.node].sharedResultPromise # 0) =>
          /\ last'.ret = last'.node
          /\ nodes' = nodes
          /\ runs' = runs
          /\ rounds' = rounds
     /\ (last'.op = "share" /\ nodes[last'.node].sharedResultPromise = 0) =>
          /\ last'.ret = Len(nodes')
          /\ nodes'[last'.ret].sharedResultPromise = Len(runs')]_vars

\* C8 happens: toPromise() has just been called on a shared instance whose
\* one run is fulfilled after one invocation of the receiver.
C8_Witness ==
  /\ last.op = "toPromise"
  /\ nodes[last.node].sharedResultPromise # 0
  /\ last.ret = nodes[last.node].sharedResultPromise
  /\ runs[last.ret].pc = "fulfilled"
  /\ runs[last.ret].result = Fulfilled(Plain(1))
  /\ Cardinality(RoundsOf(last.node)) = 1

\* C9: on an instance without stages, when the first signal is error(e) the
\* promise of produceNext is rejected with e as soon as produceNext has
\* returned, complete() or not; the run is never fulfilled, a settled run is
\* rejected with exactly e, and by then a teardown the receiver returned has
\* been invoked once.
C9_ErrorPropagation ==
  \A r \in RunIds :
    (/\ nodes[runs[r].node].operator = <<>>
     /\ HasRoot(r)
     /\ Root(r).first.sig = "error")
    => /\ runs[r].pc # "fulfilled"
       /\ runs[r].pc # "awaitClosed"
       /\ Root(r).pc = "returned" => Result(runs[r].root) = Rejected(Root(r).first.arg)
       /\ runs[r].pc = "rejected" =>
            /\ runs[r].result = Rejected(Root(r).first.arg)
            /\ Root(r).teardown # "void" => Root(r).teardownCalls = 1

\* C9 happens: a run is rejected with e after error(e), the receiver
\* returned a teardown, and complete() was never called.
C9_Witness ==
  \E r \in RunIds :
    /\ nodes[runs[r].node].operator = <<>>
    /\ runs[r].pc = "rejected"
    /\ runs[r].result = Rejected(ErrorOf(7))
    /\ Root(r).first = [sig |-> "error", arg |-> ErrorOf(7)]
    /\ Root(r).teardown = "fn"
    /\ Root(r).teardownCalls = 1
    /\ ~Root(r).completeCalled

\* C10: a run is fulfilled only after complete() was called on the observer
\* of its root round: while it was not, closedDeferred is pending and the
\* run is not fulfilled, whatever was given to next().
C10_CompletionRequired ==
  \A r \in RunIds :
    (~HasRoot(r) \/ ~Root(r).completeCalled)
    => /\ runs[r].pc # "fulfilled"
       /\ ~IsSettled(runs[r].closedDeferred.promise)

\* C10 happens: a receiver called next(1) and not complete(); the run waits
\* for closedDeferred with its result in hand.
C10_Witness ==
  \E r \in RunIds :
    /\ runs[r].pc = "awaitClosed"
    /\ Root(r).first = [sig |-> "next", arg |-> Plain(1)]
    /\ Result(runs[r].root) = Fulfilled(Plain(1))
    /\ ~Root(r).completeCalled

\* C11, as stated: with the receiver of the README, complete() on the
\* observer of the root round is called only when every stage of the
\* instance and every nested round of the run has settled.
C11_CompleteAfterDrained ==
  \A r \in RunIds :
    (HasRoot(r) /\ Root(r).completeCalled)
    => /\ IsSettled(Result(runs[r].root))
       /\ \A k \in RoundIds : rounds[k].run = r => IsSettled(Result(k))

\* C12, as stated: the teardown of a round has been invoked only if the
\* observer of the round has had its next() or error() call and the promise
\* of the round has settled.
C12_TeardownAfterSettlement ==
  \A k \in RoundIds :
    rounds[k].teardownCalls > 0
    => /\ rounds[k].first.sig # "none"
       /\ IsSettled(Result(k))

\* C13: the step in which a receiver throws logs once, throws nothing to
\* its caller, leaves the instances alone and rejects no run; the round of
\* such a receiver has no teardown, its promise is pending until a signal
\* on its observer and is settled by the first such signal alone, so the
\* run of a root round that threw waits for as long as no signal is sent.
C13_ReceiverThrowContained ==
  [][/\ \A k \in 1..Len(rounds') :
          (k > Len(rounds) /\ rounds'[k].threw) =>
            /\ last'.logs = 1
            /\ last'.err = "none"
            /\ rounds'[k].resultDeferred = NewDeferred
            /\ nodes' = nodes
            /\ \A r \in RunIds : runs'[r].result = runs[r].result
     /\ \A k \in 1..Len(rounds') :
          (k > Len(rounds) /\ ~rounds'[k].threw) => last'.logs = 0
     /\ \A k \in RoundIds :
          rounds'[k].threw =>
            /\ rounds'[k].resultDeferred.promise = FirstOutcome(rounds'[k].first)
            /\ rounds'[k].teardownCalls = 0
            /\ (rounds'[k].parent = 0 /\ rounds'[k].first.sig = "none")
                 => runs'[rounds'[k].run].pc = "producing"]_vars

\* C13 happens: the receiver threw when invoked for the root round of a run,
\* no signal was sent, produceNext has returned and the run still waits.
C13_Witness ==
  \E r \in RunIds :
    /\ runs[r].pc = "producing"
    /\ Root(r).threw
    /\ Root(r).pc = "returned"
    /\ Root(r).first.sig = "none"
    /\ Result(runs[r].root) = Pending

\* The settlement the call c makes on a Deferred nothing was called on.
SettlementOf(c) ==
  IF c.op = "resolve" THEN PromiseResolve(c.arg) ELSE Rejected(c.arg)

RECURSIVE Warnings(_)
\* The warnings logged by the calls of the sequence cs.
Warnings(cs) == IF cs = <<>> THEN 0 ELSE cs[1].logs + Warnings(Tail(cs))

\* C14: after n >= 1 calls of resolve() and reject() on one Deferred, the
\* promise is settled by the first call alone (fulfilled with its value, a
\* thenable value being adopted, or rejected with its reason), every later
\* call logged one warning, n - 1 warnings were logged in all, and no call
\* threw.
C14_DeferredWriteOnce ==
  deferredCalls # <<>> =>
    /\ deferred.isCompleted
    /\ deferred.promise = SettlementOf(deferredCalls[1])
    /\ (deferredCalls[1].op = "resolve" /\ ~IsThenable(deferredCalls[1].arg))
         => deferred.promise = Fulfilled(deferredCalls[1].arg)
    /\ deferredCalls[1].op = "reject"
         => deferred.promise = Rejected(deferredCalls[1].arg)
    /\ \A i \in 1..Len(deferredCalls) :
         deferredCalls[i].logs = IF i = 1 THEN 0 ELSE 1
    /\ Warnings(deferredCalls) = Len(deferredCalls) - 1
    /\ last.logs = deferredCalls[Len(deferredCalls)].logs
    /\ last.err = "none"

\* C14 happens: a Deferred fulfilled by resolve() was then rejected and
\* resolved with something else.
C14_Witness ==
  /\ Len(deferredCalls) = 3
  /\ deferredCalls[1].op = "resolve"
  /\ deferredCalls[2].op = "reject"
  /\ deferredCalls[3].op = "resolve"
  /\ deferredCalls[3].arg # deferredCalls[1].arg
  /\ deferred.promise = Fulfilled(deferredCalls[1].arg)

\* The longest prefix of the functions fns in which each has four
\* parameters or a number of parameters in `normal`.
Accepted(fns, normal) ==
  SubSeq(fns, 1,
         IF \A i \in 1..Len(fns) : fns[i].length \in normal \cup {4}
         THEN Len(fns)
         ELSE (CHOOSE i \in 1..Len(fns) :
                 /\ fns[i].length \notin normal \cup {4}
                 /\ \A j \in 1..(i - 1) : fns[j].length \in normal \cup {4}) - 1)

HasFour(value) == value.length = 4
HasFewer(value) == value.length # 4

\* use() classifies by the number of declared parameters, the numbers in
\* `normal` being those of a normal handler: the arguments before the first
\* one of another length are appended, in order, to the list of their kind;
\* if there is such a one it is logged once, use() throws
\* 'invalid_middleware', and neither it nor a later argument is appended.
UseClassifies(normal) ==
  \A lengths \in UseArguments :
    Use(lengths) =>
      LET fns == [i \in 1..Len(lengths) |-> Function(Registered + i, lengths[i])]
          taken == Accepted(fns, normal)
      IN /\ middlewareChain'.middlewares =
              middlewareChain.middlewares \o SelectSeq(taken, HasFewer)
         /\ middlewareChain'.errorMiddlewares =
              middlewareChain.errorMiddlewares \o SelectSeq(taken, HasFour)
         /\ IF Len(taken) = Len(fns)
            THEN last'.err = "none" /\ last'.logs = 0
            ELSE last'.err = "invalid_middleware" /\ last'.logs = 1

\* C15, as stated: a function of exactly 3 parameters is a normal handler,
\* one of exactly 4 an error handler, and one of any other length (0, 1, 2,
\* 5 or more) is logged, thrown for and appended to neither list.
C15_ExactlyThreeIsNormal == [][UseClassifies({3})]_vars

\* C15, amended: a function of at most 3 parameters is a normal handler,
\* one of exactly 4 an error handler, and one of 5 or more is logged,
\* thrown for and appended to neither list.
C15_UpToThreeIsNormal == [][UseClassifies(0..3)]_vars

\* C15 happens: use() has just thrown for a function, and a function of
\* fewer than 3 parameters and one of 4 parameters are registered.
C15_Witness ==
  /\ last.op = "use"
  /\ last.err = "invalid_middleware"
  /\ \E i \in 1..Len(middlewareChain.middlewares) :
       middlewareChain.middlewares[i].length < 3
  /\ \E i \in 1..Len(middlewareChain.errorMiddlewares) :
       middlewareChain.errorMiddlewares[i].length = 4

\* C16: handle() with no normal handler registered logs once, throws
\* 'invalid_state', starts no execution and calls no function, and leaves
\* both lists as they are; an execution starts only with a normal handler
\* registered.
C16_HandleNeedsMiddleware ==
  [][/\ (Len(middlewareChain.middlewares) < 1 /\ Handle) =>
          /\ last' = Step("handle", 0, 0, "invalid_state", 1)
          /\ handles' = handles
          /\ stack' = stack
          /\ middlewareChain' = middlewareChain
     /\ Len(handles') > Len(handles) => Len(middlewareChain.middlewares) >= 1]_vars

\* C16 happens: handle() has just thrown on a chain with error handlers
\* only.
C16_Witness ==
  /\ last = Step("handle", 0, 0, "invalid_state", 1)
  /\ middlewareChain.middlewares = <<>>
  /\ middlewareChain.errorMiddlewares # <<>>
  /\ handles = <<>>

\* The functions of the sequence fs, as a set.
Range(fs) == {fs[i] : i \in 1..Len(fs)}

\* C17: the copies of an execution are the lists as they were when handle()
\* was called and no later step changes them, use() included; every
\* registered function an execution calls is in its copies, so a function
\* registered after handle() was called is called by later executions only.
C17_SnapshotIsolation ==
  [][/\ \A h \in HandleIds :
          /\ handles'[h].middlewares = handles[h].middlewares
          /\ handles'[h].errorMiddlewares = handles[h].errorMiddlewares
     /\ Len(handles') > Len(handles) =>
          /\ handles'[Len(handles')].middlewares = Append(middlewareChain.middlewares, Close)
          /\ handles'[Len(handles')].errorMiddlewares =
               Append(middlewareChain.errorMiddlewares, Close)
     /\ \A h \in 1..Len(handles') : \A i \in 1..Len(handles'[h].invoked) :
          handles'[h].invoked[i].func.name > 0 =>
            handles'[h].invoked[i].func \in
              Range(handles'[h].middlewares) \cup Range(handles'[h].errorMiddlewares)]_vars

\* C17 happens: a middleware was registered after the first execution had
\* started; that execution has gone past its last middleware to close, and
\* a later execution has called the new middleware.
C17_Witness ==
  /\ Len(handles) = 2
  /\ Len(handles[1].middlewares) < Len(handles[2].middlewares)
  /\ handles[1].index = Len(handles[1].middlewares)
  /\ handles[2].index = Len(handles[2].middlewares) - 1

\* The functions the execution run called as middlewares, and those it
\* called as error middlewares, in the order of the calls.
IsNormalCall(c) == c.error = Null
IsErrorCall(c) == c.error # Null
NormalCalls(run) == SelectSeq(run.invoked, IsNormalCall)
ErrorCalls(run) == SelectSeq(run.invoked, IsErrorCall)

\* The calls cs went through the functions fs in order, one each, from the
\* first, and past the last of fs found nothing to call.
InOrder(cs, fs) ==
  \A i \in 1..Len(cs) : cs[i].func = IF i <= Len(fs) THEN fs[i] ELSE NotAFunction

\* In every execution the middlewares called are the first ones of the
\* copy in registration order, and so are the error middlewares; no
\* registered function is called twice, and what is called after the last
\* registered function of a copy is close.
DispatchOrder ==
  \A h \in HandleIds :
    /\ InOrder(NormalCalls(handles[h]), handles[h].middlewares)
    /\ InOrder(ErrorCalls(handles[h]), handles[h].errorMiddlewares)
    /\ \A i, j \in 1..Len(handles[h].invoked) :
         (i # j /\ handles[h].invoked[i].func.name > 0)
           => handles[h].invoked[i].func # handles[h].invoked[j].func
    /\ Len(NormalCalls(handles[h])) >= Len(handles[h].middlewares)
         => NormalCalls(handles[h])[Len(handles[h].middlewares)].func.name = 0
    /\ Len(ErrorCalls(handles[h])) >= Len(handles[h].errorMiddlewares)
         => ErrorCalls(handles[h])[Len(handles[h].errorMiddlewares)].func.name = 0

\* C18: the dispatch order holds after every step; a function is called
\* only by a call of next(), one function for one call, so a function that
\* returns or throws without calling next() has no other function called.
C18_DispatchOrder ==
  [][/\ DispatchOrder'
     /\ \A h \in HandleIds :
          /\ Len(handles'[h].invoked) = Len(handles[h].invoked) + 1
               <=> handles'[h].index + handles'[h].errorIndex
                     = handles[h].index + handles[h].errorIndex + 1
          /\ Len(handles'[h].invoked) \in {Len(handles[h].invoked), Len(handles[h].invoked) + 1}
          /\ Len(stack') < Len(stack) => handles'[h].invoked = handles[h].invoked]_vars

\* C18 happens: two middlewares and then close were called, the last
\* middleware having called next(), and nothing is being executed.
C18_Witness ==
  \E h \in HandleIds :
    /\ Len(handles[h].middlewares) = 3
    /\ Len(NormalCalls(handles[h])) = 3
    /\ handles[h].invoked[3].func = Close
    /\ stack = <<>>

\* The error handed to next() most recently among the first i calls of the
\* execution run, if any.
LatestError(run, i) ==
  IF \A j \in 1..i : run.invoked[j].err = Null THEN Null
  ELSE run.invoked[CHOOSE j \in 1..i :
                     /\ run.invoked[j].err # Null
                     /\ \A l \in (j + 1)..i : run.invoked[l].err = Null].err

\* C19: a call next(err) with an error calls the first error middleware of
\* the copy that was not called yet (close after the last one) with that
\* err, and no call after it in the execution calls a middleware.
C19_ErrorTrackEntered ==
  \A h \in HandleIds : \A i \in 1..Len(handles[h].invoked) :
    handles[h].invoked[i].err # Null =>
      /\ handles[h].invoked[i].error = handles[h].invoked[i].err
      /\ LET nth == Cardinality({j \in 1..i : handles[h].invoked[j].error # Null})
         IN handles[h].invoked[i].func =
              IF nth <= Len(handles[h].errorMiddlewares)
              THEN handles[h].errorMiddlewares[nth]
              ELSE NotAFunction
      /\ \A j \in i..Len(handles[h].invoked) :
           /\ handles[h].invoked[j].error # Null
           /\ handles[h].invoked[j].func.length # 3
      /\ handles[h].index = Cardinality({j \in 1..i : handles[h].invoked[j].error = Null})

\* C19 happens: the first of two middlewares called next(err), the error
\* middleware got err and called next(), and close was called with err;
\* the second middleware was never called.
C19_Witness ==
  \E h \in HandleIds :
    /\ Len(handles[h].middlewares) = 3
    /\ Len(handles[h].errorMiddlewares) = 2
    /\ Len(handles[h].invoked) = 3
    /\ handles[h].invoked[2].err # Null
    /\ handles[h].invoked[2].func = handles[h].errorMiddlewares[1]
    /\ handles[h].invoked[3].err = Null
    /\ handles[h].invoked[3].func = Close
    /\ handles[h].index = 1

\* C20: every function called for an error receives the error most
\* recently given to next() in the execution: the one of the call itself,
\* or the one of the latest call with an error when next() had no argument.
C20_CurrentErrorPersists ==
  \A h \in HandleIds : \A i \in 1..Len(handles[h].invoked) :
    /\ handles[h].invoked[i].error = LatestError(handles[h], i)
    /\ i = Len(handles[h].invoked) => handles[h].error = handles[h].invoked[i].error

\* C20 happens: an error middleware that got the error of next(err) called
\* next(), the second error middleware got the same error and called
\* next(err2) with another error, which close received.
C20_Witness ==
  \E h \in HandleIds :
    /\ Len(handles[h].invoked) = 4
    /\ handles[h].invoked[2].err # Null
    /\ handles[h].invoked[3].err = Null
    /\ handles[h].invoked[3].func.length = 4
    /\ handles[h].invoked[3].error = handles[h].invoked[2].err
    /\ handles[h].invoked[4].err \notin {Null, handles[h].invoked[2].err}
    /\ handles[h].invoked[4].error = handles[h].invoked[4].err

\* C21: when handle() returns, it returns the closure if a function called
\* since handle() was called has returned a function, and undefined if none
\* has; no teardown was executed by then, and a teardown is executed only
\* in a call of the closure, which exists only once handle() has returned
\* it.
C21_HandleResult ==
  [][\A h \in HandleIds :
       /\ (handles[h].pc = "handling" /\ handles'[h].pc \in {"teardown", "undefined"}) =>
            /\ handles'[h].pc = "teardown" <=> handles'[h].pushed # <<>>
            /\ last' = Step("handle", h, IF handles'[h].pushed # <<>> THEN 1 ELSE 0, "none", 0)
            /\ handles'[h].executed = <<>>
            /\ handles'[h].teardowns = handles'[h].pushed
       /\ handles'[h].pc # "teardown" => handles'[h].executed = <<>>
       /\ handles'[h].executed # handles[h].executed =>
            /\ handles[h].pc = "teardown"
            /\ last'.op = "teardown"
            /\ last'.node = h
       /\ (Len(stack') >= Len(stack) /\ stack' # <<>> /\ stack' # stack
             /\ stack'[Len(stack')] = Frame(h, stack'[Len(stack')].func, "teardown")) =>
            \/ last' = Step("teardown", h, 0, "none", 0) /\ Len(stack') = Len(stack) + 1
            \/ Top.from = "teardown" /\ Len(stack') = Len(stack)]_vars

\* C21 happens: handle() has returned the closure after two functions
\* returned a teardown, and no teardown was executed.
C21_Witness ==
  \E h \in HandleIds :
    /\ handles[h].pc = "teardown"
    /\ last = Step("handle", h, 1, "none", 0)
    /\ Len(handles[h].pushed) = 2
    /\ handles[h].executed = <<>>

\* Every middleware of execution h was called, the last one called next()
\* too, and each has returned a teardown.
AllReturned(h) ==
  /\ handles[h].pc = "teardown"
  /\ handles[h].index = Len(handles[h].middlewares)
  /\ Len(handles[h].pushed) = Len(handles[h].middlewares) - 1

\* The teardowns executed are the first ones pushed, in the order pushed.
ExecutedAsPushed(h) ==
  /\ Len(handles[h].executed) <= Len(handles[h].pushed)
  /\ handles[h].executed = SubSeq(handles[h].pushed, 1, Len(handles[h].executed))

\* C22, as stated: when every function calls next() while it executes and
\* returns a teardown, the teardowns are pushed in registration order, the
\* first registered first, and executed by the closure in that order.
C22_PushedInRegistrationOrder ==
  \A h \in HandleIds :
    AllReturned(h) =>
      /\ handles[h].pushed =
           [i \in 1..(Len(handles[h].middlewares) - 1) |-> handles[h].middlewares[i].name]
      /\ ExecutedAsPushed(h)

\* C22, amended: when every function calls next() while it executes and
\* returns a teardown, the teardowns are pushed as the functions return,
\* the last registered first, and executed by the closure in that order.
C22_PushedInReturnOrder ==
  \A h \in HandleIds :
    AllReturned(h) =>
      /\ handles[h].pushed =
           [i \in 1..(Len(handles[h].middlewares) - 1) |->
              handles[h].middlewares[Len(handles[h].middlewares) - i].name]
      /\ ExecutedAsPushed(h)

\* C22 happens: three middlewares called next() while executing and
\* returned a teardown, and the closure has called the three teardowns.
C22_Witness ==
  \E h \in HandleIds :
    /\ AllReturned(h)
    /\ Len(handles[h].pushed) = 3
    /\ handles[h].executed = handles[h].pushed
    /\ handles[h].pushed[1] = handles[h].middlewares[3].name
    /\ stack = <<>>

\* C23: when a teardown called by the closure throws, the step logs once
\* and throws nothing; the next teardown collected, if any, is called, and
\* the closure returns only when teardowns is empty.
C23_TeardownFailureIsolated ==
  [][/\ (stack # <<>> /\ Top.from = "teardown" /\ Throws) =>
          /\ last' = Step("teardown", Top.h, 0, "none", 1)
          /\ IF handles[Top.h].teardowns # <<>>
             THEN /\ handles'[Top.h].executed =
                       Append(handles[Top.h].executed, Head(handles[Top.h].teardowns))
                  /\ handles'[Top.h].teardowns = Tail(handles[Top.h].teardowns)
                  /\ Len(stack') = Len(stack)
                  /\ stack'[Len(stack')].from = "teardown"
                  /\ stack'[Len(stack')].func.name = Head(handles[Top.h].teardowns)
             ELSE /\ handles' = handles
                  /\ stack' = SubSeq(stack, 1, Len(stack) - 1)
     /\ (stack # <<>> /\ Top.from = "teardown" /\ Len(stack') < Len(stack)) =>
          handles'[Top.h].teardowns = <<>>]_vars

\* C23 happens: the first teardown has thrown, which was logged, and the
\* second one is being executed.
C23_Witness ==
  \E h \in HandleIds :
    /\ last = Step("teardown", h, 0, "none", 1)
    /\ Len(handles[h].executed) = 2
    /\ stack # <<>>
    /\ Top.from = "teardown"
    /\ Top.func.name = handles[h].executed[2]

\* The call c is one of a function given to use().
IsRegisteredCall(c) == c.func.name > 0

\* C24, as stated: no teardown is called twice, and once handle() has
\* returned nothing the execution is closed: none of its functions is
\* called and no teardown is collected afterwards, so that no teardown is
\* left without a closure to call it.
C24_TeardownGuaranteed ==
  [][\A h \in HandleIds :
       /\ \A i, j \in 1..Len(handles'[h].executed) :
            handles'[h].executed[i] = handles'[h].executed[j] => i = j
       /\ handles[h].pc = "undefined" =>
            /\ SelectSeq(handles'[h].invoked, IsRegisteredCall)
                 = SelectSeq(handles[h].invoked, IsRegisteredCall)
            /\ handles'[h].pushed = handles[h].pushed]_vars

\* C25: in every round the promise of resultDeferred is what the first
\* next() or error() call on the observer made it (next() adopting a
\* thenable); a call after the first leaves the round as it is, and no call
\* throws.
C25_ObserverFirstWins ==
  [][\A k \in RoundIds :
       /\ rounds'[k].resultDeferred.promise = FirstOutcome(rounds'[k].first)
       /\ rounds[k].first.sig # "none" => rounds'[k].first = rounds[k].first
       /\ \A sig \in {"error", "next"}, arg \in EmitValues \cup EmitErrors :
            Signal(k, sig, arg) =>
              /\ last'.err = "none"
              /\ IF rounds[k].first.sig = "none"
                 THEN /\ rounds'[k].first = [sig |-> sig, arg |-> arg]
                      /\ rounds'[k].resultDeferred.promise =
                           IF sig = "next" THEN PromiseResolve(arg) ELSE Rejected(arg)
                 ELSE rounds' = rounds]_vars

\* C25 happens: the observer of a round whose first call was error(e) was
\* then called with next(v), and the round's promise is rejected with e.
C25_Witness ==
  \E k \in RoundIds :
    /\ last = Step("next", k, 0, "none", 1)
    /\ rounds[k].first.sig = "error"
    /\ rounds[k].resultDeferred.promise = Rejected(rounds[k].first.arg)

\* C26: the function a receiver has returned for a round, root or nested,
\* is not called while produceNext is at its await, was called exactly once
\* when produceNext has gone past it, whatever the round's result is, and
\* produceNext does go past it; nothing is called for a receiver that
\* returned nothing.
C26_TeardownOncePerRound ==
  /\ [](\A k \in RoundIds :
          rounds[k].teardownCalls =
            IF rounds[k].teardown # "void" /\ rounds[k].pc = "returned" THEN 1 ELSE 0)
  /\ \A k \in 1..MaxRounds :
       (k \in RoundIds /\ rounds[k].teardown # "void")
         ~> (k \in RoundIds /\ rounds[k].teardownCalls = 1)

\* C26 happens: the receiver of a nested round returned a function, the
\* round was rejected by error(), and the function was called once.
C26_Witness ==
  \E k \in RoundIds :
    /\ rounds[k].parent # 0
    /\ rounds[k].teardown = "fn"
    /\ rounds[k].first.sig = "error"
    /\ rounds[k].teardownCalls = 1

\* No element occurs twice in the sequence.
NoDuplicates(seq) ==
  \A i, j \in 1..Len(seq) : seq[i] = seq[j] => i = j

\* C27: in every execution the teardowns the closure has called, followed
\* by the ones still collected, are the teardowns pushed, in the order
\* pushed; a teardown being executed is no longer collected; and no
\* teardown is called twice, however often the closure is called.
C27_TeardownsShiftedOnce ==
  \A h \in HandleIds :
    /\ handles[h].pushed = handles[h].executed \o handles[h].teardowns
    /\ NoDuplicates(handles[h].executed)
    /\ \A i \in 1..Len(stack) :
         (stack[i].h = h /\ stack[i].from = "teardown") =>
           /\ stack[i].func.name \in Range(handles[h].executed)
           /\ stack[i].func.name \notin Range(handles[h].teardowns)

\* C27 happens: the closure was called again while a teardown it had called
\* was executing, two teardowns are executing, and a third one is still
\* collected.
C27_Witness ==
  \E h \in HandleIds :
    /\ Len(stack) >= 2
    /\ stack[Len(stack) - 1].from = "teardown"
    /\ Top.from = "teardown"
    /\ Top.h = h
    /\ Len(handles[h].executed) = 2
    /\ handles[h].teardowns # <<>>

\* C28, as stated: in every execution every call of next() has called a
\* registered function or close, and no call of next() has ended in the
\* TypeError of calling what is not a function.
C28_SafeClose ==
  /\ \A h \in HandleIds :
       \A i \in 1..Len(handles[h].invoked) :
         handles[h].invoked[i].func # NotAFunction
  /\ last.op = "next" => last.err # "TypeError"

\* C29: a step changes the indexes, the error, the teardowns and the calls
\* of at most one execution, the one that took the step, and new calls only
\* when the step is a next() of that execution; so with any interleaving
\* every execution goes through its own copies in registration order, and
\* its error is the one most recently given to its own next().
C29_RunsOwnCursors ==
  [][/\ \A g \in HandleIds :
          /\ handles'[g] # handles[g] => last'.node = g
          /\ handles'[g].invoked # handles[g].invoked =>
               /\ last'.op = "next"
               /\ Len(handles'[g].invoked) = Len(handles[g].invoked) + 1
               /\ \A f \in HandleIds \ {g} : handles'[f] = handles[f]
     /\ DispatchOrder'
     /\ \A g \in 1..Len(handles') :
          handles'[g].error = LatestError(handles'[g], Len(handles'[g].invoked))]_vars

\* C29 happens: two executions are in flight with nothing being executed;
\* the first went to its error middleware after one middleware, the second
\* started later, has no error, is past its second middleware and has
\* collected a teardown the first has not.
C29_Witness ==
  /\ Len(handles) = 2
  /\ stack = <<>>
  /\ handles[1].error # Null
  /\ handles[1].index = 1
  /\ handles[1].errorIndex = 1
  /\ handles[1].teardowns = <<>>
  /\ handles[2].error = Null
  /\ handles[2].index = 2
  /\ handles[2].index < Len(handles[2].middlewares)
  /\ handles[2].teardowns # <<>>

\* The rounds started for a request the handlers of round p returned, at a
\* stage before s.
EarlierChildren(p, s) ==
  {d \in RoundIds : rounds[d].parent = p /\ rounds[d].parentStage < s}

\* C30: a step that calls produceNext for the request a handler of round p
\* returned is taken only when the observer of p has had its next() or
\* error() and the promise the handler's stage was chained on is settled;
\* when that promise is the result of an earlier sub-chain round of p, the
\* observer of that round has had its next() or error() too.
C30_CausalOrdering ==
  [][Len(rounds') > Len(rounds) =>
       LET c == rounds'[Len(rounds')]
           p == c.parent
       IN  p # 0 =>
             /\ rounds[p].first.sig # "none"
             /\ IsSettled(rounds[p].resultDeferred.promise)
             /\ rounds[p].pc = "returned"
             /\ c.parentStage = rounds[p].stage
             /\ IsSettled(StageInput(p))
             /\ \A d \in EarlierChildren(p, c.parentStage) :
                  /\ rounds[d].first.sig # "none"
                  /\ IsSettled(Result(d))
                  /\ rounds[p].waiting # d]_vars

\* C30 happens: the second stage of a round got the result of the
\* sub-chain round of its first stage and returned a request of its own,
\* for which a third round was started.
C30_Witness ==
  \E c, d \in RoundIds :
    /\ rounds[c].parent # 0
    /\ rounds[d].parent = rounds[c].parent
    /\ rounds[d].parentStage = 1
    /\ rounds[c].parentStage = 2
    /\ rounds[d].first.sig # "none"
    /\ rounds[rounds[c].parent].waiting = c

\* The root rounds of run r.
RootRoundsOf(r) == {k \in RoundIds : rounds[k].run = r /\ rounds[k].parent = 0}

\* C31: a run whose instance has no receiver waits, settled by nothing and
\* with no receiver invoked; a run has one root round at most, given the
\* receiver of produce(); a settled run has the outcome its stages give
\* to the first signal of that round, so two runs with the same first
\* signal settle alike whichever of produce() and toPromise() came first;
\* and a run whose instance has a receiver does invoke it.
C31_ProduceOrderIrrelevant ==
  /\ [](\A r \in RunIds :
          /\ ~nodes[runs[r].node].hasReceiver =>
               /\ runs[r].pc = "awaitReceiver"
               /\ runs[r].result = Pending
          /\ runs[r].pc = "awaitReceiver" => RootRoundsOf(r) = {}
          /\ runs[r].pc # "awaitReceiver" =>
               /\ RootRoundsOf(r) = {runs[r].root}
               /\ nodes[runs[r].node].nextReceiverDeferred.promise =
                    Fulfilled(ReceiverRef(Root(r).receiver))
          /\ RunSettled(r) =>
               runs[r].result =
                 ExpectedFold(nodes[runs[r].node].operator, FirstOutcome(Root(r).first))
          /\ \A q \in RunIds :
               (RunSettled(r) /\ RunSettled(q) /\ Root(r).first = Root(q).first)
                 => runs[r].result = runs[q].result)
  /\ \A r \in 1..MaxRuns :
       (r \in RunIds /\ nodes[runs[r].node].hasReceiver)
         ~> (r \in RunIds /\ Cardinality(RootRoundsOf(r)) = 1)

\* C31 happens: the run of the instance that had its receiver first is
\* fulfilled; toPromise() was called on the other instance, its run is
\* waiting, and produce() has just been accepted on it.
C31_Witness ==
  /\ last = Step("produce", ToPromiseFirst, 1, "none", 0)
  /\ \E r \in RunIds :
       /\ runs[r].node = ToPromiseFirst
       /\ runs[r].pc = "awaitReceiver"
       /\ rounds # <<>>
  /\ \E q \in RunIds :
       /\ runs[q].node = ProduceFirst
       /\ runs[q].pc = "fulfilled"

\* C32: the instance chain() or share() returns has no receiver and a
\* pending receiver promise, whatever the instance it was derived from
\* holds; produce() changes the slot of the instance it is called on and no
\* other, and is accepted on every instance that has no receiver of its
\* own; a run of an instance without a receiver of its own waits, and a run
\* is given the receiver of its own instance.
C32_FreshProducerSlot ==
  [][/\ (last'.op \in {"chain", "share"} /\ Len(nodes') > Len(nodes)) =>
          /\ last'.ret = Len(nodes')
          /\ ~nodes'[last'.ret].hasReceiver
          /\ nodes'[last'.ret].nextReceiverDeferred = NewDeferred
          /\ \A n \in NodeIds : nodes'[n] = nodes[n]
     /\ last'.op = "produce" =>
          /\ \A n \in NodeIds \ {last'.node} : nodes'[n] = nodes[n]
          /\ ~nodes[last'.node].hasReceiver =>
               /\ last'.err = "none"
               /\ nodes'[last'.node].nextReceiverDeferred.promise =
                    Fulfilled(ReceiverRef(last'.ret))
     /\ \A r \in 1..Len(runs') :
          /\ ~nodes'[runs'[r].node].hasReceiver =>
               /\ runs'[r].pc = "awaitReceiver"
               /\ runs'[r].root = 0
          /\ runs'[r].root # 0 =>
               nodes'[runs'[r].node].nextReceiverDeferred.promise =
                 Fulfilled(ReceiverRef(rounds'[runs'[r].root].receiver))]_vars

\* C32 happens: the first instance has receiver 1; the instance derived
\* from it was given receiver 2 by a produce() of its own, and the run of
\* the derived instance has invoked receiver 2.
C32_Witness ==
  /\ Len(nodes) = 2
  /\ nodes[1].nextReceiverDeferred.promise = Fulfilled(ReceiverRef(1))
  /\ nodes[2].nextReceiverDeferred.promise = Fulfilled(ReceiverRef(2))
  /\ nodes[2].operator # <<>>
  /\ \E r \in RunIds :
       /\ runs[r].node = 2
       /\ runs[r].root # 0
       /\ Root(r).receiver = 2

\* C33, as stated: the receiver of a shared instance is invoked only for a
\* run that a toPromise() call of a consumer has started.
C33_SharedStartsAtFirstConsumer ==
  \A n \in NodeIds :
    nodes[n].sharedResultPromise # 0 =>
      \A k \in RoundsOf(n) : runs[rounds[k].run].consumer

\* The first call on the observer of the root round of run r was error(e),
\* and no stage of the instance recovers from e.
RootFailed(r) ==
  /\ HasRoot(r)
  /\ Root(r).first.sig = "error"
  /\ ExpectedFold(nodes[runs[r].node].operator, Rejected(Root(r).first.arg))
       = Rejected(Root(r).first.arg)

\* C34: a run whose root round failed with e and was not recovered is
\* rejected with e, whether complete() is called or not: it never waits for
\* closedDeferred, which only a run whose result is a value does, and it
\* does get rejected.
C34_RejectionSkipsCompletion ==
  /\ [](\A r \in RunIds :
          /\ runs[r].pc = "awaitClosed" => Result(runs[r].root).st = "ok"
          /\ runs[r].pc = "rejected" =>
               /\ Result(runs[r].root).st = "err"
               /\ runs[r].result = Result(runs[r].root)
          /\ RootFailed(r) =>
               /\ runs[r].pc \in {"producing", "rejected"}
               /\ runs[r].pc = "rejected" => runs[r].result = Rejected(Root(r).first.arg))
  /\ \A r \in 1..MaxRuns :
       (r \in RunIds /\ RootFailed(r)) ~> (r \in RunIds /\ runs[r].pc = "rejected")

\* C34 happens: the receiver called error(e) and never complete(), the
\* instance has a stage, and the run is rejected with e.
C34_Witness ==
  \E r \in RunIds :
    /\ RootFailed(r)
    /\ nodes[runs[r].node].operator # <<>>
    /\ ~Root(r).completeCalled
    /\ ~IsSettled(runs[r].closedDeferred.promise)
    /\ runs[r].pc = "rejected"
    /\ runs[r].result = Rejected(ErrorOf(7))

\* C35: when a middleware or an error middleware throws, the step calls no
\* function, leaves the indexes, the current error and the teardowns of
\* the execution as they are, and ends the function only: a next() that
\* called it throws to the function that called that next(), and when
\* handle() called it handle() throws and returns no closure. After
\* handle() has thrown no teardown of the execution is ever called.
C35_ThrowNotRouted ==
  [][/\ (stack # <<>> /\ Top.from # "teardown" /\ Throws) =>
          /\ handles'[Top.h].invoked = handles[Top.h].invoked
          /\ handles'[Top.h].index = handles[Top.h].index
          /\ handles'[Top.h].errorIndex = handles[Top.h].errorIndex
          /\ handles'[Top.h].error = handles[Top.h].error
          /\ handles'[Top.h].teardowns = handles[Top.h].teardowns
          /\ handles'[Top.h].executed = handles[Top.h].executed
          /\ stack' = SubSeq(stack, 1, Len(stack) - 1)
          /\ IF Top.from = "handle"
             THEN /\ last' = Step("handle", Top.h, 0, "thrown", 0)
                  /\ handles'[Top.h].pc = "thrown"
             ELSE /\ last' = Step("next", Top.h, 0, "thrown", 0)
                  /\ handles'[Top.h].pc = handles[Top.h].pc
     /\ \A h \in HandleIds :
          handles[h].pc = "thrown" =>
            /\ handles'[h].pc = "thrown"
            /\ handles'[h].executed = <<>>]_vars

\* C35 happens: a middleware called next(), the middleware called by it
\* returned a teardown, and then the first one threw: handle() has thrown,
\* the teardown is collected and was not called, and the error middleware
\* registered was not called.
C35_Witness ==
  \E h \in HandleIds :
    /\ last = Step("handle", h, 0, "thrown", 0)
    /\ handles[h].pc = "thrown"
    /\ handles[h].teardowns # <<>>
    /\ handles[h].executed = <<>>
    /\ Len(handles[h].errorMiddlewares) > 1
    /\ handles[h].errorIndex = 0
    /\ handles[h].error = Null
    /\ stack = <<>>

\* C36: a step in which complete() is called on the observer of a nested
\* round changes no run; the closedDeferred of a run is fulfilled exactly
\* when complete() was called on the observer of its root round, whose
\* request is the instance toPromise() was called on, and a run is
\* fulfilled only then.
C36_RootCompletionOnly ==
  [][/\ \A k \in RoundIds :
          (rounds[k].parent # 0 /\ rounds'[k].completeCalled /\ ~rounds[k].completeCalled)
            => runs' = runs
     /\ \A r \in 1..Len(runs') :
          /\ IsSettled(runs'[r].closedDeferred.promise) <=>
               (runs'[r].root # 0 /\ rounds'[runs'[r].root].completeCalled)
          /\ runs'[r].root # 0 =>
               /\ rounds'[runs'[r].root].parent = 0
               /\ rounds'[runs'[r].root].request = runs'[r].node
          /\ runs'[r].pc = "fulfilled" => IsSettled(runs'[r].closedDeferred.promise)]_vars

\* C36 happens: complete() was called on the observer of a nested round
\* and not on the root round's; the run has its value and waits for
\* closedDeferred.
C36_Witness ==
  \E r \in RunIds : \E k \in RoundIds :
    /\ rounds[k].run = r
    /\ rounds[k].parent # 0
    /\ rounds[k].completeCalled
    /\ HasRoot(r)
    /\ ~Root(r).completeCalled
    /\ runs[r].pc = "awaitClosed"
    /\ ~IsSettled(runs[r].closedDeferred.promise)

====
